---- MODULE Spec2Model ----
(***************************************************************************)
(* HR management web application (Flask + SQLAlchemy): session based       *)
(* authentication, the login_required guard, the dashboards and the        *)
(* password-reset routes of src/app.py, over the tables of src/models.py.  *)
(*                                                                         *)
(* Strings that the code inspects (emails, passwords) are sequences of     *)
(* one-character strings; dates and times are integers (minutes, days).    *)
(* Every request is one action: the whole handler, decorator included.     *)
(***************************************************************************)
EXTENDS Integers, Sequences, FiniteSets, TLC

VARIABLES
    admins,          \* table admins:          id -> row
    employees,       \* table employees:       id -> row
    leave_requests,  \* table leave_requests:  id -> row
    messages,        \* table messages:        id -> row
    todos,           \* table todos:           id -> row
    documents,       \* table documents:       id -> row
    seq,             \* the tables' primary-key sequences (last id handed out)
    session,         \* flask session of each client (cookie): key -> value
    now,             \* the clock read by datetime.utcnow(), in minutes
    resp             \* the response to the last request

vars == <<admins, employees, leave_requests, messages, todos, documents, seq, session, now, resp>>

db == <<admins, employees, leave_requests, messages, todos, documents, seq>>

(***************************************************************************)
(* Bounds of the model                                                     *)
(***************************************************************************)
MaxEmployees == 2    \* rows ever inserted into employees
SpecEmployees == 1   \* rows inserted into employees under Next
MaxLeaves == 6       \* rows ever inserted into leave_requests
MaxMessages == 6     \* rows ever inserted into messages
MaxTodos == 2        \* rows ever inserted into todos
MaxDocuments == 2    \* rows ever inserted into documents
MaxWait == 61        \* minutes the password-reset runs last

Clients == {"c1", "c2"}

\* the client whose requests the single-browser runs follow
Browser == {"c1"}

None == "None"

\* NULL in a date or timestamp column
Null == 0 - 1

\* minutes of a day; the clock starts at the first minute of day 1
Day == 24 * 60
Start == Day

\* date.today()
Today == now \div Day

(***************************************************************************)
(* Strings                                                                 *)
(***************************************************************************)
WS == {" "}

\* str.lower() on the letters the model uses
LowerChar(c) ==
    CASE c = "A" -> "a"
      [] c = "X" -> "x"
      [] OTHER -> c

\* a lookup that compares addresses as they were typed
keep_case(s) == s

lower(s) == [i \in 1..Len(s) |-> LowerChar(s[i])]

RECURSIVE lstrip(_)
lstrip(s) == IF s # <<>> /\ Head(s) \in WS THEN lstrip(Tail(s)) ELSE s

RECURSIVE rstrip(_)
rstrip(s) ==
    IF s # <<>> /\ s[Len(s)] \in WS THEN rstrip(SubSeq(s, 1, Len(s) - 1)) ELSE s

\* str.strip()
strip(s) == rstrip(lstrip(s))

\* the literals of src/app.py
DefaultAdminEmail == <<"a","d","m","i","n","@","m","a","x","e","l","o",".","c","o","m">>
DefaultAdminPassword == <<"a","d","m","i","n","1","2","3">>
DefaultAdminName == "System Administrator"
DemoEmployeeEmail == <<"d","e","m","o","@","e","m","p","l","o","y","e","e",".","c","o","m">>
DemoEmployeePassword == <<"d","e","m","o","1","2","3">>
DemoEmployeeName == "Demo Employee"
EmployeeQuickKey == "employee123"
AdminQuickKey == "maxelo"

\* the strings requests are built from
AliceEmail == <<"a","@","x">>
AliceEmailRaw == <<" ","A","@","X"," ">>
AlicePassword == <<"s","e","c","r","e","t","1">>
AlicePasswordX == AlicePassword \o <<"x">>
ShortPassword == <<"a","b","c">>

\* login forms: <<email, password>>
LoginForms ==
    {<<<<>>, AlicePassword>>, <<AliceEmail, <<>>>>,
     <<AliceEmailRaw, AlicePassword>>, <<AliceEmail, AlicePasswordX>>,
     <<DemoEmployeeEmail, DemoEmployeePassword>>,
     <<DefaultAdminEmail, DefaultAdminPassword>>}

\* profile forms: <<name, phone, new_password, confirm_password>>
ProfileForms ==
    {<<None, None, <<>>, <<>>>>, <<"Bob", "555", <<>>, <<>>>>,
     <<"Bob", None, AlicePassword, AlicePasswordX>>,
     <<"Bob", "555", ShortPassword, ShortPassword>>,
     <<None, None, AlicePasswordX, AlicePasswordX>>}

\* new-employee forms: <<name, email, password>>
EmployeeForms ==
    {<<"", AliceEmail, AlicePassword>>, <<"Alice", AliceEmailRaw, AlicePassword>>,
     <<"Alice", DemoEmployeeEmail, AlicePassword>>}

KeyInputs == {"", EmployeeQuickKey, AdminQuickKey}

\* requests: <<method, form fields...>>
LoginRequests == {<<"GET", <<>>, <<>>>>} \cup {<<"POST", f[1], f[2]>> : f \in LoginForms}
EmployeeRequests == {<<"GET", "", <<>>, <<>>>>} \cup {<<"POST", f[1], f[2], f[3]>> : f \in EmployeeForms}

(***************************************************************************)
(* werkzeug.security: salted one-way hashing.  A hash string               *)
(* "method$salt$digest" is the triple of its parts; the digest of a        *)
(* password under a salt is a symbolic term, equal to another digest only  *)
(* when method, salt and password are equal (collision freedom).           *)
(***************************************************************************)
Salts == {"s1", "s2"}

\* the salts drawn while requests are served
RequestSalts == {"s1"}
HashMethod == "scrypt"

_hash_internal(method, salt, password) ==
    [method |-> method, salt |-> salt, of |-> password]

generate_password_hash(password, salt) ==
    <<HashMethod, salt, _hash_internal(HashMethod, salt, password)>>

\* a stored string with fewer than two "$" is rejected, never raised on
check_password_hash(pwhash, password) ==
    IF Len(pwhash) < 3 THEN FALSE
    ELSE _hash_internal(pwhash[1], pwhash[2], password) = pwhash[3]

(***************************************************************************)
(* Sessions                                                                *)
(***************************************************************************)
EmptySession == [k \in {} |-> None]

\* session.get(key)
Get(s, k) == IF k \in DOMAIN s THEN s[k] ELSE None

\* session[key] = value
Put(s, k, v) == [x \in DOMAIN s \cup {k} |-> IF x = k THEN v ELSE s[x]]

session_keep(s) == s

\* session.clear() of a login
session_clear(s) == EmptySession

\* session[key] = value for every key of new, onto the session s
Assign(s, new) == [k \in DOMAIN s \cup DOMAIN new |-> IF k \in DOMAIN new THEN new[k] ELSE s[k]]

\* a session that carries the address of the default admin for everybody
PrincipalSessionDefaultEmail(id, role, row) ==
    [user_id |-> id, user_role |-> role, user_name |-> row.name, user_email |-> DefaultAdminEmail]

\* the four assignments of a login, after session.clear()
PrincipalSession(id, role, row) ==
    [user_id |-> id, user_role |-> role, user_name |-> row.name, user_email |-> row.email]

\* ... followed by session.permanent = True
PermanentSession(id, role, row) == Put(PrincipalSession(id, role, row), "_permanent", TRUE)

(***************************************************************************)
(* Responses: flash message, redirect target or rendered template, and     *)
(* whether the wrapped view function ran                                   *)
(***************************************************************************)
NoCtx == [none |-> TRUE]

Response(c, op, invoked, flash, kind, to, ctx) ==
    [client |-> c, op |-> op, invoked |-> invoked, flash |-> flash,
     kind |-> kind, to |-> to, ctx |-> ctx]

Redirect(c, op, invoked, flash, to) == Response(c, op, invoked, flash, "redirect", to, NoCtx)
Render(c, op, invoked, flash, template) == Response(c, op, invoked, flash, "render", template, NoCtx)

NoFlash == ""

(***************************************************************************)
(* Tables                                                                  *)
(***************************************************************************)
EmptyTable == [k \in {} |-> None]

Insert(table, id, row) == [x \in DOMAIN table \cup {id} |-> IF x = id THEN row ELSE table[x]]

Delete(table, id) == [x \in DOMAIN table \ {id} |-> table[x]]

\* Model.query.filter_by(email=email): the ids of the matching rows
ByEmail(table, email) == {id \in DOMAIN table : table[id].email = email}

\* .first() on a non-empty result; it is only applied to lookups by email,
\* where the unique index leaves one row
First(ids) == CHOOSE id \in ids : \A other \in ids : id <= other

(***************************************************************************)
(* setup_database(): tables created, default admin inserted                *)
(***************************************************************************)
Init ==
    /\ \E salt \in RequestSalts :
         admins = Insert(EmptyTable, 1,
                         [email |-> DefaultAdminEmail,
                          password |-> generate_password_hash(DefaultAdminPassword, salt),
                          name |-> DefaultAdminName,
                          last_login |-> Null])
    /\ employees = EmptyTable
    /\ leave_requests = EmptyTable
    /\ messages = EmptyTable
    /\ todos = EmptyTable
    /\ documents = EmptyTable
    /\ seq = [admins |-> 1, employees |-> 0, leave_requests |-> 0, messages |-> 0, todos |-> 0, documents |-> 0]
    /\ session = [c \in Clients |-> EmptySession]
    /\ now = Start
    /\ resp = Render(None, "start", FALSE, NoFlash, "index.html")

(***************************************************************************)
(* Flash messages of src/app.py                                            *)
(***************************************************************************)
PleaseLogIn == "Please log in to access this page."
NoPermission == "You do not have permission to access this page."
EnterBoth == "Please enter both email and password"
LoginSuccessful == "Login successful!"
InvalidEmailOrPassword == "Invalid email or password"
AdminLoginSuccessful == "Admin login successful!"
InvalidAdminCredentials == "Invalid admin credentials"
DemoEmployeeLogin == "Demo employee login successful!"
DemoAdminLogin == "Demo admin login successful!"
InvalidQuickKey == "Invalid quick access key"
LoggedOut == "You have been logged out successfully."
UserNotFound == "User not found"

(***************************************************************************)
(* login_required(role): the decorator around a view function f            *)
(***************************************************************************)
Reject(c, op, flash) ==
    /\ resp' = Redirect(c, op, FALSE, flash, "index")
    /\ UNCHANGED <<db, session, now>>

login_required_no_login_check(role, c, op, f) ==
    IF role # None /\ Get(session[c], "user_role") # role
    THEN Reject(c, op, NoPermission)
    ELSE f

login_required_no_role_check(role, c, op, f) ==
    IF "user_id" \notin DOMAIN session[c]
    THEN Reject(c, op, PleaseLogIn)
    ELSE f

login_required(role, c, op, f) ==
    IF "user_id" \notin DOMAIN session[c]
    THEN Reject(c, op, PleaseLogIn)
    ELSE IF role # None /\ Get(session[c], "user_role") # role
    THEN Reject(c, op, NoPermission)
    ELSE f

\* the role each view function is decorated with
RequiredRole ==
    [employee_dashboard |-> "employee",
     employee_todos_add |-> "employee",
     employee_leave_request |-> "employee",
     admin_dashboard |-> "admin",
     admin_employees_add |-> "admin",
     admin_employee_toggle_status |-> "admin",
     admin_leave_request_update |-> "admin",
     admin_send_message |-> "admin",
     employee_leave |-> "employee",
     admin_employee_delete |-> "admin",
     employee_documents_upload |-> "employee",
     employee_document_delete |-> "employee",
     employee_todo_edit |-> "employee",
     employee_todo_update |-> "employee",
     employee_todo_delete |-> "employee",
     employee_todos_clear_completed |-> "employee",
     admin_todo_add |-> "admin",
     update_profile |-> None]

GuardedOps == DOMAIN RequiredRole

\* get_current_user(): the table the session's role selects, None for a
\* session without user_role or user_id or with another role string
CurrentTable(c) ==
    IF "user_role" \notin DOMAIN session[c] \/ "user_id" \notin DOMAIN session[c]
    THEN EmptyTable
    ELSE IF session[c]["user_role"] = "admin" THEN admins
    ELSE IF session[c]["user_role"] = "employee" THEN employees
    ELSE EmptyTable

\* get_current_user() is not None: Model.query.get(session['user_id']) found a row
HasCurrentUser(c) ==
    /\ "user_id" \in DOMAIN session[c]
    /\ session[c]["user_id"] \in DOMAIN CurrentTable(c)

(***************************************************************************)
(* Authentication routes                                                   *)
(***************************************************************************)
\* Employee.query.filter_by(email=email, is_active=True)
ActiveEmployeesByEmail(email) == {id \in ByEmail(employees, email) : employees[id].is_active}

AnyEmployeesByEmail(email) == ByEmail(employees, email)

\* a refusal that also ends the session of the browser
login_refused_clearing_session(c, op, flash, template) ==
    /\ resp' = Render(c, op, TRUE, flash, template)
    /\ session' = [session EXCEPT ![c] = EmptySession]
    /\ UNCHANGED <<db, now>>

\* flash(..., 'error') and the login page again: nothing is written
login_refused(c, op, flash, template) ==
    /\ resp' = Render(c, op, TRUE, flash, template)
    /\ UNCHANGED <<db, session, now>>

employee_login(c, method, form_email, password) ==
    IF "user_id" \in DOMAIN session[c] /\ Get(session[c], "user_role") = "employee"
    THEN /\ resp' = Redirect(c, "employee_login", TRUE, NoFlash, "employee_dashboard")
         /\ UNCHANGED <<db, session, now>>
    ELSE IF method = "POST"
    THEN LET email == lower(strip(form_email))
             found == ActiveEmployeesByEmail(email)
         IN  IF email = <<>> \/ password = <<>>
             THEN login_refused(c, "employee_login", EnterBoth, "employee_login.html")
             ELSE IF found # {} /\ check_password_hash(employees[First(found)].password, password)
             THEN LET id == First(found)
                  IN  /\ session' = [session EXCEPT ![c] = Assign(session_clear(session[c]), PermanentSession(id, "employee", employees[id]))]
                      /\ employees' = [employees EXCEPT ![id].last_login = now]
                      /\ resp' = Redirect(c, "employee_login", TRUE, LoginSuccessful, "employee_dashboard")
                      /\ UNCHANGED <<admins, leave_requests, messages, todos, documents, seq, now>>
             ELSE login_refused(c, "employee_login", InvalidEmailOrPassword, "employee_login.html")
    ELSE /\ resp' = Render(c, "employee_login", TRUE, NoFlash, "employee_login.html")
         /\ UNCHANGED <<db, session, now>>

admin_login(c, method, form_email, password) ==
    IF "user_id" \in DOMAIN session[c] /\ Get(session[c], "user_role") = "admin"
    THEN /\ resp' = Redirect(c, "admin_login", TRUE, NoFlash, "admin_dashboard")
         /\ UNCHANGED <<db, session, now>>
    ELSE IF method = "POST"
    THEN LET email == lower(strip(form_email))
             found == ByEmail(admins, email)
         IN  IF email = <<>> \/ password = <<>>
             THEN login_refused(c, "admin_login", EnterBoth, "admin_login.html")
             ELSE IF found # {} /\ check_password_hash(admins[First(found)].password, password)
             THEN LET id == First(found)
                  IN  /\ session' = [session EXCEPT ![c] = Assign(session_clear(session[c]), PermanentSession(id, "admin", admins[id]))]
                      /\ admins' = [admins EXCEPT ![id].last_login = now]
                      /\ resp' = Redirect(c, "admin_login", TRUE, AdminLoginSuccessful, "admin_dashboard")
                      /\ UNCHANGED <<employees, leave_requests, messages, todos, documents, seq, now>>
             ELSE login_refused(c, "admin_login", InvalidAdminCredentials, "admin_login.html")
    ELSE /\ resp' = Render(c, "admin_login", TRUE, NoFlash, "admin_login.html")
         /\ UNCHANGED <<db, session, now>>

\* the demo employee row that quick access creates
DemoEmployee(salt) ==
    [email |-> DemoEmployeeEmail,
     password |-> generate_password_hash(DemoEmployeePassword, salt),
     name |-> DemoEmployeeName, phone |-> "", is_active |-> TRUE, last_login |-> Null]

employee_quick_access(c, key) ==
    IF key = EmployeeQuickKey
    THEN LET found == ByEmail(employees, DemoEmployeeEmail)
         IN  /\ IF found = {}
                THEN /\ seq.employees < MaxEmployees
                     /\ \E salt \in RequestSalts :
                          employees' = Insert(employees, seq.employees + 1, DemoEmployee(salt))
                     /\ seq' = [seq EXCEPT !.employees = @ + 1]
                ELSE UNCHANGED <<employees, seq>>
             /\ LET id == First(ByEmail(employees', DemoEmployeeEmail))
                IN  session' = [session EXCEPT ![c] = Assign(session_clear(session[c]), PrincipalSession(id, "employee", employees'[id]))]
             /\ resp' = Redirect(c, "employee_quick_access", TRUE, DemoEmployeeLogin, "employee_dashboard")
             /\ UNCHANGED <<admins, leave_requests, messages, todos, documents, now>>
    ELSE /\ resp' = Redirect(c, "employee_quick_access", TRUE, InvalidQuickKey, "employee_login")
         /\ UNCHANGED <<db, session, now>>

admin_quick_access(c, key) ==
    IF key = AdminQuickKey
    THEN LET found == ByEmail(admins, DefaultAdminEmail)
         IN  /\ IF found = {}
                THEN /\ \E salt \in RequestSalts :
                          admins' = Insert(admins, seq.admins + 1,
                                           [email |-> DefaultAdminEmail,
                                            password |-> generate_password_hash(DefaultAdminPassword, salt),
                                            name |-> DefaultAdminName, last_login |-> Null])
                     /\ seq' = [seq EXCEPT !.admins = @ + 1]
                ELSE UNCHANGED <<admins, seq>>
             /\ LET id == First(ByEmail(admins', DefaultAdminEmail))
                IN  session' = [session EXCEPT ![c] = Assign(session_clear(session[c]), PrincipalSession(id, "admin", admins'[id]))]
             /\ resp' = Redirect(c, "admin_quick_access", TRUE, DemoAdminLogin, "admin_dashboard")
             /\ UNCHANGED <<employees, leave_requests, messages, todos, documents, now>>
    ELSE /\ resp' = Redirect(c, "admin_quick_access", TRUE, InvalidQuickKey, "admin_login")
         /\ UNCHANGED <<db, session, now>>

logout_pop_role(s) == [k \in DOMAIN s \ {"user_role"} |-> s[k]]

\* session.clear() of logout
logout_clear(s) == EmptySession

logout(c) ==
    LET user_role == Get(session[c], "user_role")
    IN  /\ session' = [session EXCEPT ![c] = logout_clear(session[c])]
        /\ resp' = Redirect(c, "logout", TRUE, LoggedOut,
                            IF user_role = "admin" THEN "admin_login" ELSE "employee_login")
        /\ UNCHANGED <<db, now>>

(***************************************************************************)
(* Queries: order_by(created_at.desc()).limit(n).  Rows with equal keys    *)
(* come back in any order, so a query has a set of possible results.       *)
(***************************************************************************)
RECURSIVE OrderAsc(_, _)
OrderAsc(ids, key) ==
    IF ids = {} THEN {<<>>}
    ELSE UNION {{<<m>> \o t : t \in OrderAsc(ids \ {m}, key)} :
                m \in {x \in ids : \A y \in ids : key[x] <= key[y]}}

OrderOldestFirst(ids, key) == OrderAsc(ids, key)

RECURSIVE OrderDesc(_, _)
OrderDesc(ids, key) ==
    IF ids = {} THEN {<<>>}
    ELSE UNION {{<<m>> \o t : t \in OrderDesc(ids \ {m}, key)} :
                m \in {x \in ids : \A y \in ids : key[x] >= key[y]}}

Limit(results, n) == {SubSeq(r, 1, IF Len(r) < n THEN Len(r) ELSE n) : r \in results}

CreatedAt(table) == [id \in DOMAIN table |-> table[id].created_at]

DueDate(table) == [id \in DOMAIN table |-> table[id].due_date]

\* the rows a template is handed, as it shows them
Items(table, ids) == [i \in 1..Len(ids) |-> [id |-> ids[i]] @@ table[ids[i]]]

RecentLimit == 5

(***************************************************************************)
(* Employee dashboard                                                      *)
(***************************************************************************)
recent_leaves_terminal_only(uid) ==
    {id \in DOMAIN leave_requests :
        /\ leave_requests[id].employee_id = uid
        /\ leave_requests[id].status \in {"approved", "rejected"}}

recent_leaves_pending_only(uid) ==
    {id \in DOMAIN leave_requests :
        /\ leave_requests[id].employee_id = uid
        /\ leave_requests[id].status = "pending"}

\* LeaveRequest.query.filter_by(employee_id=...)
recent_leaves_query(uid) == {id \in DOMAIN leave_requests : leave_requests[id].employee_id = uid}

\* Message.query.filter_by(receiver_id=...)
recent_messages_query(uid) == {id \in DOMAIN messages : messages[id].receiver_id = uid}

\* Todo.query.filter_by(employee_id=..., is_completed=False).count()
pending_todos_count(uid) ==
    Cardinality({id \in DOMAIN todos : todos[id].employee_id = uid /\ ~todos[id].is_completed})

employee_dashboard_view_marking_read(c) ==
    /\ HasCurrentUser(c)
    /\ messages' = [id \in DOMAIN messages |->
                      IF messages[id].receiver_id = session[c]["user_id"]
                      THEN [messages[id] EXCEPT !.is_read = TRUE]
                      ELSE messages[id]]
    /\ resp' = Render(c, "employee_dashboard", TRUE, NoFlash, "employee_dashboard.html")
    /\ UNCHANGED <<admins, employees, leave_requests, todos, documents, seq, session, now>>

employee_dashboard_view(c) ==
    IF ~HasCurrentUser(c)
    THEN /\ resp' = Redirect(c, "employee_dashboard", TRUE, UserNotFound, "logout")
         /\ UNCHANGED <<db, session, now>>
    ELSE LET uid == session[c]["user_id"]
             mine == {id \in DOMAIN leave_requests : leave_requests[id].employee_id = uid}
             inbox == {id \in DOMAIN messages : messages[id].receiver_id = uid}
             upcoming == {id \in DOMAIN todos :
                            /\ todos[id].employee_id = uid
                            /\ ~todos[id].is_completed
                            /\ todos[id].due_date # Null
                            /\ todos[id].due_date >= Today}
         IN  /\ \E recent_leaves \in Limit(OrderDesc(recent_leaves_query(uid), CreatedAt(leave_requests)), RecentLimit),
                   recent_messages \in Limit(OrderDesc(recent_messages_query(uid), CreatedAt(messages)), RecentLimit),
                   upcoming_todos \in Limit(OrderAsc(upcoming, DueDate(todos)), RecentLimit) :
                  resp' = Response(c, "employee_dashboard", TRUE, NoFlash, "render", "employee_dashboard.html",
                            [pending_leaves |-> Cardinality({id \in mine : leave_requests[id].status = "pending"}),
                             unread_messages |-> Cardinality({id \in inbox : ~messages[id].is_read}),
                             pending_todos |-> pending_todos_count(uid),
                             approved_leaves |-> Cardinality({id \in mine : leave_requests[id].status = "approved"}),
                             recent_leaves |-> Items(leave_requests, recent_leaves),
                             recent_messages |-> Items(messages, recent_messages),
                             upcoming_todos |-> Items(todos, upcoming_todos),
                             today |-> Today,
                             current_user |-> uid])
             /\ UNCHANGED <<db, session, now>>

employee_dashboard(c) ==
    login_required(RequiredRole.employee_dashboard, c, "employee_dashboard", employee_dashboard_view(c))

(***************************************************************************)
(* Admin dashboard                                                         *)
(***************************************************************************)
\* the rendered admin dashboards for a resolved current_user (Null for None)
AdminDashboardRendered(c, current_user) ==
    {Response(c, "admin_dashboard", TRUE, NoFlash, "render", "admin_dashboard.html",
        [total_employees |-> Cardinality({id \in DOMAIN employees : employees[id].is_active}),
         pending_leave_requests |-> Cardinality({id \in DOMAIN leave_requests : leave_requests[id].status = "pending"}),
         active_employees |-> Cardinality({id \in DOMAIN employees : employees[id].is_active}),
         pending_tasks_count |-> Cardinality({id \in DOMAIN todos : ~todos[id].is_completed}),
         pending_leaves |-> Items(leave_requests, pending_leaves),
         current_user |-> current_user]) :
     pending_leaves \in Limit(OrderDesc({id \in DOMAIN leave_requests : leave_requests[id].status = "pending"},
                                        CreatedAt(leave_requests)), RecentLimit)}

admin_dashboard_view(c) ==
    /\ resp' \in AdminDashboardRendered(c, IF HasCurrentUser(c) THEN session[c]["user_id"] ELSE Null)
    /\ UNCHANGED <<db, session, now>>

admin_dashboard(c) ==
    login_required(RequiredRole.admin_dashboard, c, "admin_dashboard", admin_dashboard_view(c))

(***************************************************************************)
(* Admin: employee management                                              *)
(***************************************************************************)
FillAllFields == "Please fill in all required fields"
EmailExists == "Email already exists"
EmployeeAdded == "Employee added successfully!"
EmployeeActivated == "Employee activated successfully!"
EmployeeDeactivated == "Employee deactivated successfully!"
ErrorUpdatingStatus == "Error updating employee status"

admin_employees_add_view(c, method, name, form_email, form_password) ==
    IF method = "POST"
    THEN LET email == lower(strip(form_email))
             password == strip(form_password)
         IN  IF name = "" \/ email = <<>> \/ password = <<>>
             THEN /\ resp' = Render(c, "admin_employees_add", TRUE, FillAllFields, "admin_employees_add.html")
                  /\ UNCHANGED <<db, session, now>>
             ELSE IF AnyEmployeesByEmail(email) # {}
             THEN /\ resp' = Render(c, "admin_employees_add", TRUE, EmailExists, "admin_employees_add.html")
                  /\ UNCHANGED <<db, session, now>>
             ELSE /\ seq.employees < MaxEmployees
                  /\ \E salt \in RequestSalts :
                       employees' = Insert(employees, seq.employees + 1,
                                           [email |-> email,
                                            password |-> generate_password_hash(password, salt),
                                            name |-> name, phone |-> "",
                                            is_active |-> TRUE, last_login |-> Null])
                  /\ seq' = [seq EXCEPT !.employees = @ + 1]
                  /\ resp' = Redirect(c, "admin_employees_add", TRUE, EmployeeAdded, "admin_employees")
                  /\ UNCHANGED <<admins, leave_requests, messages, todos, documents, session, now>>
    ELSE /\ resp' = Render(c, "admin_employees_add", TRUE, NoFlash, "admin_employees_add.html")
         /\ UNCHANGED <<db, session, now>>

admin_employees_add(c, method, name, form_email, form_password) ==
    login_required(RequiredRole.admin_employees_add, c, "admin_employees_add",
                   admin_employees_add_view(c, method, name, form_email, form_password))

\* get_or_404 raises NotFound inside the try block; except Exception takes it
admin_employee_toggle_status_view(c, employee_id) ==
    IF employee_id \in DOMAIN employees
    THEN /\ employees' = [employees EXCEPT ![employee_id].is_active = ~@]
         /\ resp' = Redirect(c, "admin_employee_toggle_status", TRUE,
                             IF employees[employee_id].is_active THEN EmployeeDeactivated
                             ELSE EmployeeActivated,
                             "admin_employees")
         /\ UNCHANGED <<admins, leave_requests, messages, todos, documents, seq, session, now>>
    ELSE /\ resp' = Redirect(c, "admin_employee_toggle_status", TRUE, ErrorUpdatingStatus, "admin_employees")
         /\ UNCHANGED <<db, session, now>>

admin_employee_toggle_status(c, employee_id) ==
    login_required(RequiredRole.admin_employee_toggle_status, c, "admin_employee_toggle_status",
                   admin_employee_toggle_status_view(c, employee_id))

(***************************************************************************)
(* Profile                                                                 *)
(***************************************************************************)
PasswordUpdated == "Password updated successfully!"
PasswordTooShort == "Password must be at least 6 characters long"
PasswordsDoNotMatch == "Passwords do not match"
ProfileUpdated == "Profile updated successfully!"
ShorterMinimum == Len(ShortPassword)
MinPasswordLength == 6

\* the row of the session's principal with f applied, written back on commit
UpdateCurrentUser(c, row) ==
    IF session[c]["user_role"] = "admin"
    THEN /\ admins' = [admins EXCEPT ![session[c]["user_id"]] = row]
         /\ UNCHANGED employees
    ELSE /\ employees' = [employees EXCEPT ![session[c]["user_id"]] = row]
         /\ UNCHANGED admins

\* a form field that may be absent (None): request.form.get(key, default)
FormGet(value, default) == IF value = None THEN default ELSE value

\* a rejection that writes the assignments made so far
update_profile_rejected_committing(c, flash, pending) ==
    /\ UpdateCurrentUser(c, pending)
    /\ resp' = Redirect(c, "update_profile", TRUE, flash, "profile")
    /\ UNCHANGED <<leave_requests, messages, todos, documents, seq, session, now>>

\* return redirect(url_for('profile')) before db.session.commit(): the
\* assignments to the loaded row are dropped with the database session at
\* the end of the request
update_profile_rejected(c, flash, pending) ==
    /\ resp' = Redirect(c, "update_profile", TRUE, flash, "profile")
    /\ UNCHANGED <<db, session, now>>

update_profile_view(c, form_name, form_phone, form_new_password, form_confirm_password) ==
    IF ~HasCurrentUser(c)
    THEN /\ resp' = Redirect(c, "update_profile", TRUE, UserNotFound, "logout")
         /\ UNCHANGED <<db, session, now>>
    ELSE LET current_user == CurrentTable(c)[session[c]["user_id"]]
             named == [current_user EXCEPT !.name = FormGet(form_name, @)]
             phoned == IF Get(session[c], "user_role") = "employee"
                       THEN [named EXCEPT !.phone = FormGet(form_phone, @)]
                       ELSE named
             new_password == strip(form_new_password)
             confirm_password == strip(form_confirm_password)
         IN  IF new_password # <<>> /\ new_password # confirm_password
             THEN update_profile_rejected(c, PasswordsDoNotMatch, phoned)
             ELSE IF new_password # <<>> /\ Len(new_password) < MinPasswordLength
             THEN update_profile_rejected(c, PasswordTooShort, phoned)
             ELSE /\ \E salt \in RequestSalts :
                       UpdateCurrentUser(c,
                           IF new_password # <<>>
                           THEN [phoned EXCEPT !.password = generate_password_hash(new_password, salt)]
                           ELSE phoned)
                  /\ session' = [session EXCEPT ![c] = Put(@, "user_name", named.name)]
                  /\ resp' = Redirect(c, "update_profile", TRUE, ProfileUpdated, "profile")
                  /\ UNCHANGED <<leave_requests, messages, todos, documents, seq, now>>

update_profile(c, form_name, form_phone, form_new_password, form_confirm_password) ==
    login_required(RequiredRole.update_profile, c, "update_profile",
                   update_profile_view(c, form_name, form_phone, form_new_password, form_confirm_password))

(***************************************************************************)
(* The application: sessions, guard, principals                            *)
(***************************************************************************)
EmployeeIds == 1..SpecEmployees

Next ==
    \/ \E c \in Browser, r \in LoginRequests : employee_login(c, r[1], r[2], r[3])
    \/ \E c \in Browser, r \in LoginRequests : admin_login(c, r[1], r[2], r[3])
    \/ \E c \in Browser, key \in KeyInputs :
         employee_quick_access(c, key) /\ seq'.employees <= SpecEmployees
    \/ \E c \in Browser, key \in KeyInputs : admin_quick_access(c, key)
    \/ \E c \in Browser : logout(c)
    \/ \E c \in Browser : employee_dashboard(c)
    \/ \E c \in Browser : admin_dashboard(c)
    \/ \E c \in Browser, r \in EmployeeRequests :
         admin_employees_add(c, r[1], r[2], r[3], r[4]) /\ seq'.employees <= SpecEmployees
    \/ \E c \in Browser, id \in EmployeeIds : admin_employee_toggle_status(c, id)
    \/ \E c \in Browser, form \in ProfileForms :
         update_profile(c, form[1], form[2], form[3], form[4])

Spec == Init /\ [][Next]_vars

(***************************************************************************)
(* Properties of the session and guard layer                               *)
(***************************************************************************)
\* the last request established an employee session
EmployeeSessionEstablished ==
    /\ resp.op \in {"employee_login", "employee_quick_access"}
    /\ resp.flash \in {LoginSuccessful, DemoEmployeeLogin}

\* C1: a login attempt for an employee whose is_active flag is false never
\* produces an authenticated session, through employee_login or through
\* employee_quick_access: whenever a request has just established an
\* employee session, the employee it names is active.
C1_InactiveEmployeeNeverAuthenticated ==
    EmployeeSessionEstablished => employees[session[resp.client]["user_id"]].is_active

\* C1 restricted to the login form: employee_login alone keeps the rule
C1_LoginFormRefusesInactive ==
    (resp.op = "employee_login" /\ resp.flash = LoginSuccessful)
        => employees[session[resp.client]["user_id"]].is_active

\* C2: after logout() the session holds no principal data; while a session
\* is empty every operation wrapped by login_required is rejected; and an
\* empty session becomes non-empty only through a login that succeeded.
LoginFlashes == {LoginSuccessful, AdminLoginSuccessful, DemoEmployeeLogin, DemoAdminLogin}

C2_LogoutEndsAccess ==
    /\ [](resp.op = "logout" => session[resp.client] = EmptySession)
    /\ [][\A c \in Clients :
            (session[c] = EmptySession /\ resp'.client = c /\ resp'.op \in GuardedOps)
                => (~resp'.invoked /\ session'[c] = EmptySession)]_vars
    /\ [][\A c \in Clients :
            (session[c] = EmptySession /\ session'[c] # EmptySession)
                => (resp'.client = c /\ resp'.flash \in LoginFlashes)]_vars

\* a logout that followed a successful form login
C2_Witness ==
    /\ resp.op = "logout"
    /\ session[resp.client] = EmptySession
    /\ \E id \in DOMAIN employees : employees[id].last_login # Null

\* route of the login page of a role
LoginEntry(role) == IF role = "admin" THEN "admin_login" ELSE "employee_login"

\* the last request was for a guarded operation and carried no user_id
AnonymousGuardedRequest ==
    /\ resp.op \in GuardedOps
    /\ "user_id" \notin DOMAIN session[resp.client]

\* C9 as stated: a request without user_id for a guarded operation does not
\* invoke it, is told to log in, and is redirected to the login entry point
\* of the role the operation requires.
C9_RedirectToRoleLogin ==
    (AnonymousGuardedRequest /\ RequiredRole[resp.op] # None)
        => /\ ~resp.invoked
           /\ resp.flash = PleaseLogIn
           /\ resp.kind = "redirect"
           /\ resp.to = LoginEntry(RequiredRole[resp.op])

\* C9 amended: a request without user_id for a guarded operation does not
\* invoke it, is told to log in, and is redirected to the index page,
\* whatever role the operation requires.
C9_RedirectToIndex ==
    AnonymousGuardedRequest
        => /\ ~resp.invoked
           /\ resp.flash = PleaseLogIn
           /\ resp.kind = "redirect"
           /\ resp.to = "index"

C9_Witness ==
    /\ AnonymousGuardedRequest
    /\ resp.op = "admin_dashboard"
    /\ resp.flash = PleaseLogIn
    /\ \E id \in DOMAIN admins : admins[id].last_login # Null

\* C10: an operation wrapped by login_required(role=R) runs its handler only
\* if the session's role equals R; a logged-in request with another role
\* does not invoke the handler, is told it has no permission, and changes
\* no record and no session.
C10_RoleMismatchRejected ==
    [][\A c \in Clients :
        (resp'.client = c /\ resp'.op \in GuardedOps /\ now' = now
         /\ RequiredRole[resp'.op] # None)
            => /\ resp'.invoked => Get(session[c], "user_role") = RequiredRole[resp'.op]
               /\ ("user_id" \in DOMAIN session[c]
                   /\ Get(session[c], "user_role") # RequiredRole[resp'.op])
                     => /\ ~resp'.invoked
                        /\ resp'.flash = NoPermission
                        /\ db' = db
                        /\ session' = session]_vars

\* an employee who changed the profile name asked for the admin dashboard
C10_Witness ==
    /\ resp.op = "admin_dashboard"
    /\ resp.flash = NoPermission
    /\ ~resp.invoked
    /\ Get(session[resp.client], "user_role") = "employee"
    /\ Get(session[resp.client], "user_name") = "Bob"

(***************************************************************************)
(* Credential store: set_password / check_password of Admin and Employee   *)
(***************************************************************************)
Admin_set_password_unhashed(row, password, salt) == [row EXCEPT !.password = <<password>>]

Admin_set_password(row, password, salt) ==
    [row EXCEPT !.password = generate_password_hash(password, salt)]

Admin_check_password(row, password) == check_password_hash(row.password, password)

Employee_set_password(row, password, salt) ==
    [row EXCEPT !.password = generate_password_hash(password, salt)]

Employee_check_password(row, password) == check_password_hash(row.password, password)

\* the passwords set, and the passwords tried against them
HashPasswords == {<<>>, ShortPassword, AlicePassword, AlicePasswordX, DemoEmployeePassword}
TriedPasswords == HashPasswords \cup {pw \o <<"x">> : pw \in HashPasswords}

SetPassword(kind, password, salt) ==
    /\ IF kind = "admin"
       THEN /\ admins' = [admins EXCEPT ![1] = Admin_set_password(@, password, salt)]
            /\ UNCHANGED employees
       ELSE /\ employees' = [employees EXCEPT ![1] = Employee_set_password(@, password, salt)]
            /\ UNCHANGED admins
    /\ resp' = Response(None, "set_password", TRUE, NoFlash, "call", kind,
                        [password |-> password])
    /\ UNCHANGED <<leave_requests, messages, todos, documents, seq, session, now>>

\* check_password on the principal whose password was set last
CheckPassword(tried) ==
    /\ resp.op \in {"set_password", "check_password"}
    /\ resp' = Response(None, "check_password", TRUE, NoFlash, "call", resp.to,
                        [password |-> resp.ctx.password,
                         tried |-> tried,
                         result |-> IF resp.to = "admin"
                                    THEN Admin_check_password(admins[1], tried)
                                    ELSE Employee_check_password(employees[1], tried)])
    /\ UNCHANGED <<db, session, now>>

InitHash ==
    /\ \E salt \in Salts :
         admins = Insert(EmptyTable, 1,
                         [email |-> DefaultAdminEmail,
                          password |-> generate_password_hash(DefaultAdminPassword, salt),
                          name |-> DefaultAdminName, last_login |-> Null])
    /\ \E salt \in Salts : employees = Insert(EmptyTable, 1, DemoEmployee(salt))
    /\ leave_requests = EmptyTable
    /\ messages = EmptyTable
    /\ todos = EmptyTable
    /\ documents = EmptyTable
    /\ seq = [admins |-> 1, employees |-> 1, leave_requests |-> 0, messages |-> 0, todos |-> 0, documents |-> 0]
    /\ session = [c \in Clients |-> EmptySession]
    /\ now = Start
    /\ resp = Render(None, "start", FALSE, NoFlash, "index.html")

NextHash ==
    \/ \E kind \in {"admin", "employee"}, password \in HashPasswords, salt \in Salts :
         SetPassword(kind, password, salt)
    \/ \E tried \in TriedPasswords : CheckPassword(tried)

SpecHash == InitHash /\ [][NextHash]_vars

EnterEmail == "Please enter your email address"
ResetLinkSent == "If an account exists with this email, a password reset link has been sent."
FillAllResetFields == "Please fill in all fields"
ResetSuccess == "Password reset successfully! Please log in with your new password."

NoSuchAccount == "No account with this email"

forgot_password_flash_lookup(email) ==
    IF ByEmail(employees, email) \cup ByEmail(admins, email) # {} THEN ResetLinkSent ELSE NoSuchAccount

\* the message for a non-empty email: no account is looked up
forgot_password_flash(email) == ResetLinkSent

\* the response also carries the request: its method, email field and time
forgot_password(c, method, form_email) ==
    LET request == [method |-> method, email |-> form_email, at |-> now]
    IN  /\ IF method = "POST"
           THEN LET email == lower(strip(form_email))
                IN  IF email = <<>>
                    THEN resp' = Response(c, "forgot_password", TRUE, EnterEmail, "render",
                                          "forgot_password.html", request)
                    ELSE \* "In production, send reset email": nothing is looked up or stored
                         resp' = Response(c, "forgot_password", TRUE, forgot_password_flash(email),
                                          "redirect", "employee_login", request)
           ELSE resp' = Response(c, "forgot_password", TRUE, NoFlash, "render",
                                 "forgot_password.html", request)
        /\ UNCHANGED <<db, session, now>>

\* token: what the reset link of the request carries; the view never reads it
reset_password(c, method, token, form_new_password, form_confirm_password) ==
    /\ IF method = "POST"
       THEN LET new_password == strip(form_new_password)
                confirm_password == strip(form_confirm_password)
                flash == IF new_password = <<>> \/ confirm_password = <<>> THEN FillAllResetFields
                         ELSE IF new_password # confirm_password THEN PasswordsDoNotMatch
                         ELSE IF Len(new_password) < MinPasswordLength THEN PasswordTooShort
                         ELSE ResetSuccess
            IN  \* "In production, update password in database": no row is touched
                resp' = Response(c, "reset_password", TRUE, flash,
                                 IF flash = ResetSuccess THEN "redirect" ELSE "render",
                                 IF flash = ResetSuccess THEN "employee_login" ELSE "reset_password.html",
                                 [method |-> method, token |-> token, at |-> now])
       ELSE resp' = Response(c, "reset_password", TRUE, NoFlash, "render", "reset_password.html",
                             [method |-> method, token |-> token, at |-> now])
    /\ UNCHANGED <<db, session, now>>

\* time passing between two requests
Wait(minutes) ==
    /\ now + minutes <= Start + MaxWait
    /\ now' = now + minutes
    /\ UNCHANGED <<db, session, resp>>

Tokens == {"t1", "t2"}
WaitMinutes == {1, 59}

\* reset forms: <<new_password, confirm_password>>
ResetForms ==
    {<<<<>>, <<>>>>, <<AlicePassword, AlicePasswordX>>, <<ShortPassword, ShortPassword>>,
     <<AlicePassword, AlicePassword>>, <<AlicePasswordX, AlicePasswordX>>}

NextReset ==
    \/ \E c \in Browser, method \in {"GET", "POST"}, email \in {<<>>, AliceEmailRaw, DemoEmployeeEmail} :
         forgot_password(c, method, email)
    \/ \E c \in Browser, token \in Tokens, form \in ResetForms :
         reset_password(c, "POST", token, form[1], form[2])
    \/ \E c \in Browser, token \in Tokens : reset_password(c, "GET", token, <<>>, <<>>)
    \/ \E c \in Browser, key \in KeyInputs : employee_quick_access(c, key)
    \/ \E minutes \in WaitMinutes : Wait(minutes)

SpecReset == Init /\ [][NextReset]_vars

\* outcomes the reset-token service is specified to report
InvalidToken == "InvalidToken"
TokenExpired == "TokenExpired"
Hour == Day \div 24

\* a POST to reset_password whose password fields pass validation: a redeem
IsRedeem(r) ==
    /\ r.op = "reset_password"
    /\ r.ctx.method = "POST"
    /\ r.flash \notin {FillAllResetFields, PasswordsDoNotMatch, PasswordTooShort}

\* C3: a reset token is redeemed successfully at most once: once a redeem of
\* a token has succeeded, the next redeem of the same token fails with
\* InvalidToken.
C3_SecondRedeemFails ==
    [][(IsRedeem(resp) /\ resp.flash = ResetSuccess
        /\ IsRedeem(resp') /\ resp'.ctx.token = resp.ctx.token)
            => resp'.flash = InvalidToken]_vars

\* C4: a password reset succeeds only with a token issued less than one
\* hour earlier: a redeem that follows the forgot-password request by more
\* than an hour fails with TokenExpired.
C4_ExpiredRedeemFails ==
    [][(resp.op = "forgot_password" /\ resp.flash = ResetLinkSent
        /\ IsRedeem(resp') /\ resp'.ctx.at > resp.ctx.at + Hour)
            => resp'.flash = TokenExpired]_vars

(***************************************************************************)
(* Leave requests, messages, todos                                         *)
(***************************************************************************)
\* a reading of the clock by a request that stamps a row: sequential
\* requests read increasing times
utcnow == now + 1

\* a date field of a form: absent/empty, or text that strptime accepts or not
NoDate == [given |-> FALSE, valid |-> FALSE, date |-> 0]
BadDate == [given |-> TRUE, valid |-> FALSE, date |-> 0]
DateField(d) == [given |-> TRUE, valid |-> TRUE, date |-> d]

LeaveSubmitted == "Leave request submitted successfully!"
EndBeforeStart == "End date cannot be before start date"
StartInPast == "Start date cannot be in the past"
InvalidDateFormat == "Invalid date format"
ErrorSubmittingLeave == "Error submitting leave request"

\* a form that accepts every start date
StartNeverInPast(start_date) == FALSE

\* start_date < date.today()
StartIsInPast(start_date) == start_date < Today

employee_leave_request_view(c, method, leave_type, start_field, end_field) ==
    LET page(flash) == /\ resp' = Render(c, "employee_leave_request", TRUE, flash,
                                         "employee_leave_request.html")
                       /\ UNCHANGED <<db, session, now>>
    IN  IF method # "POST" THEN page(NoFlash)
        ELSE IF leave_type = "" \/ ~start_field.given \/ ~end_field.given THEN page(FillAllFields)
        ELSE IF ~start_field.valid \/ ~end_field.valid THEN page(InvalidDateFormat)
        ELSE IF start_field.date > end_field.date THEN page(EndBeforeStart)
        ELSE IF StartIsInPast(start_field.date) THEN page(StartInPast)
        ELSE IF ~HasCurrentUser(c) THEN page(ErrorSubmittingLeave)
        ELSE /\ seq.leave_requests < MaxLeaves
             /\ leave_requests' = Insert(leave_requests, seq.leave_requests + 1,
                                         [employee_id |-> session[c]["user_id"],
                                          leave_type |-> leave_type,
                                          start_date |-> start_field.date,
                                          end_date |-> end_field.date,
                                          status |-> "pending",
                                          created_at |-> utcnow])
             /\ seq' = [seq EXCEPT !.leave_requests = @ + 1]
             /\ now' = utcnow
             /\ resp' = Redirect(c, "employee_leave_request", TRUE, LeaveSubmitted, "employee_leave")
             /\ UNCHANGED <<admins, employees, messages, todos, documents, session>>

employee_leave_request(c, method, leave_type, start_field, end_field) ==
    login_required(RequiredRole.employee_leave_request, c, "employee_leave_request",
                   employee_leave_request_view(c, method, leave_type, start_field, end_field))

InvalidStatus == "Invalid status"
LeaveApproved == "Leave request approved successfully!"
LeaveRejected == "Leave request rejected successfully!"
ErrorUpdatingLeave == "Error updating leave request"

\* every status string the model's requests carry
EveryStatus == {"approved", "rejected", "pending"}

\* status not in ['approved', 'rejected']
AcceptedStatus == {"approved", "rejected"}

admin_leave_request_update_view(c, request_id, status) ==
    LET back(flash) == Response(c, "admin_leave_request_update", TRUE, flash, "redirect",
                                "admin_leave_requests", [request_id |-> request_id, status |-> status])
    IN  IF status \notin AcceptedStatus
        THEN /\ resp' = back(InvalidStatus)
             /\ UNCHANGED <<db, session, now>>
        ELSE IF request_id \notin DOMAIN leave_requests
        THEN \* get_or_404 raises inside the try block
             /\ resp' = back(ErrorUpdatingLeave)
             /\ UNCHANGED <<db, session, now>>
        ELSE /\ leave_requests' = [leave_requests EXCEPT ![request_id].status = status]
             /\ resp' = back(IF status = "approved" THEN LeaveApproved ELSE LeaveRejected)
             /\ UNCHANGED <<admins, employees, messages, todos, documents, seq, session, now>>

admin_leave_request_update(c, request_id, status) ==
    login_required(RequiredRole.admin_leave_request_update, c, "admin_leave_request_update",
                   admin_leave_request_update_view(c, request_id, status))

NoValidRecipients == "No valid recipients selected"
SelectAtLeastOne == "Please select at least one employee"
ErrorSendingMessage == "Error sending message"
\* the number of recipients is left out of the text
MessageSent == "Message sent to employee(s) successfully!"

\* the ids in increasing order, as the rows are added
RECURSIVE Ascending(_)
Ascending(ids) ==
    IF ids = {} THEN <<>>
    ELSE LET m == CHOOSE x \in ids : \A y \in ids : x <= y
         IN  <<m>> \o Ascending(ids \ {m})

\* selected: the ids ticked in the form (request.form.getlist)
admin_send_message_view(c, method, recipient_type, form_subject, form_content, selected) ==
    LET subject == strip(form_subject)
        content == strip(form_content)
        active == {id \in DOMAIN employees : employees[id].is_active}
        recipients == IF recipient_type = "all" /\ selected = {} THEN active
                      ELSE selected \cap active
        page(flash) == /\ resp' = Render(c, "admin_send_message", TRUE, flash, "admin_send_message.html")
                       /\ UNCHANGED <<db, session, now>>
        back(flash) == /\ resp' = Redirect(c, "admin_send_message", TRUE, flash, "admin_send_message")
                       /\ UNCHANGED <<db, session, now>>
    IN  IF method # "POST" THEN page(NoFlash)
        ELSE IF subject = <<>> \/ content = <<>> THEN back(FillAllFields)
        ELSE IF recipient_type # "all" /\ selected = {} THEN back(SelectAtLeastOne)
        ELSE IF recipients = {} THEN back(NoValidRecipients)
        ELSE IF ~HasCurrentUser(c) THEN page(ErrorSendingMessage)
        \* messages.sender_id is a foreign key into employees
        ELSE IF session[c]["user_id"] \notin DOMAIN employees THEN page(ErrorSendingMessage)
        ELSE LET order == Ascending(recipients)
                 new == [i \in 1..Len(order) |->
                           [sender_id |-> session[c]["user_id"],
                            receiver_id |-> order[i],
                            subject |-> subject,
                            content |-> content,
                            is_read |-> FALSE,
                            created_at |-> utcnow]]
             IN  /\ seq.messages + Len(order) <= MaxMessages
                 /\ messages' = [id \in DOMAIN messages \cup (seq.messages + 1 .. seq.messages + Len(order)) |->
                                   IF id \in DOMAIN messages THEN messages[id]
                                   ELSE new[id - seq.messages]]
                 /\ seq' = [seq EXCEPT !.messages = @ + Len(order)]
                 /\ now' = utcnow
                 /\ resp' = Redirect(c, "admin_send_message", TRUE, MessageSent, "admin_dashboard")
                 /\ UNCHANGED <<admins, employees, leave_requests, todos, documents, session>>

admin_send_message(c, method, recipient_type, form_subject, form_content, selected) ==
    login_required(RequiredRole.admin_send_message, c, "admin_send_message",
                   admin_send_message_view(c, method, recipient_type, form_subject, form_content, selected))

TaskRequired == "Task description is required"
DueInPast == "Due date cannot be in the past"
TaskAdded == "Task added successfully!"
ErrorAddingTask == "Error adding task"

\* the mapped attributes of Todo: columns of Todo and BaseModel, and the
\* backref of Employee.todos
TodoAttributes ==
    {"id", "created_at", "updated_at", "employee_id", "content", "priority",
     "due_date", "is_completed", "employee"}

\* Todo(**kwargs): the declarative constructor raises TypeError for a
\* keyword that is no attribute of the class
TodoAccepts(kwargs) == kwargs \subseteq TodoAttributes

\* the keywords employee_todos_add passes
TodoKeywords == {"employee_id", "content", "priority", "due_date", "category", "is_important"}

employee_todos_add_view(c, method, form_content, due_field) ==
    LET content == strip(form_content)
        page(flash, template) ==
            /\ resp' = Render(c, "employee_todos_add", TRUE, flash, template)
            /\ UNCHANGED <<db, session, now>>
    IN  IF method # "POST" THEN page(NoFlash, "task_form.html")
        ELSE IF content = <<>> THEN page(TaskRequired, "employee_todos_add.html")
        ELSE IF due_field.given /\ ~due_field.valid THEN page(InvalidDateFormat, "task_form.html")
        ELSE IF due_field.given /\ due_field.date < Today THEN page(DueInPast, "employee_todos_add.html")
        ELSE IF ~HasCurrentUser(c) THEN page(ErrorAddingTask, "task_form.html")
        ELSE IF ~TodoAccepts(TodoKeywords) THEN page(ErrorAddingTask, "task_form.html")
        ELSE /\ seq.todos < MaxTodos
             /\ todos' = Insert(todos, seq.todos + 1,
                                [employee_id |-> session[c]["user_id"],
                                 content |-> content,
                                 due_date |-> IF due_field.given THEN due_field.date ELSE Null,
                                 is_completed |-> FALSE,
                                 created_at |-> utcnow])
             /\ seq' = [seq EXCEPT !.todos = @ + 1]
             /\ now' = utcnow
             /\ resp' = Redirect(c, "employee_todos_add", TRUE, TaskAdded, "employee_todos")
             /\ UNCHANGED <<admins, employees, leave_requests, messages, documents, session>>

employee_todos_add(c, method, form_content, due_field) ==
    login_required(RequiredRole.employee_todos_add, c, "employee_todos_add",
                   employee_todos_add_view(c, method, form_content, due_field))

(***************************************************************************)
(* The dashboards at work: an employee and the admin are logged in from    *)
(* two browsers; the employee files leave requests and todos and opens the *)
(* dashboard, the admin decides requests and sends messages                *)
(***************************************************************************)
Alice(salt) ==
    [email |-> AliceEmail,
     password |-> generate_password_hash(AlicePassword, salt),
     name |-> "Alice", phone |-> "", is_active |-> TRUE, last_login |-> Start]

\* the state after admin_login on c2, admin_employees_add of Alice and
\* employee_login of Alice on c1
InitDash ==
    /\ \E salt \in RequestSalts :
         /\ admins = Insert(EmptyTable, 1,
                            [email |-> DefaultAdminEmail,
                             password |-> generate_password_hash(DefaultAdminPassword, salt),
                             name |-> DefaultAdminName,
                             last_login |-> Start])
         /\ employees = Insert(EmptyTable, 1, Alice(salt))
    /\ leave_requests = EmptyTable
    /\ messages = EmptyTable
    /\ todos = EmptyTable
    /\ documents = EmptyTable
    /\ seq = [admins |-> 1, employees |-> 1, leave_requests |-> 0, messages |-> 0, todos |-> 0, documents |-> 0]
    /\ session = [c \in Clients |->
                    IF c = "c1" THEN PermanentSession(1, "employee", employees[1])
                    ELSE PermanentSession(1, "admin", admins[1])]
    /\ now = Start
    /\ resp = Redirect("c1", "employee_login", TRUE, LoginSuccessful, "employee_dashboard")

AdminBrowser == {"c2"}

\* leave forms: <<leave_type, start_date, end_date>>
LeaveForms ==
    {<<"", NoDate, NoDate>>,
     <<"sick", BadDate, DateField(Today)>>,
     <<"sick", DateField(Today + 1), DateField(Today)>>,
     <<"sick", DateField(Today - 1), DateField(Today)>>,
     <<"sick", DateField(Today), DateField(Today + 1)>>}

\* todo forms: <<content, due_date>>
TodoForms ==
    {<<<<" ">>, NoDate>>, <<<<"t">>, BadDate>>, <<<<"t">>, DateField(Today - 1)>>,
     <<<<"t">>, DateField(Today)>>, <<<<"t">>, NoDate>>}

\* message forms: <<recipient_type, subject, content, selected_employees>>
MessageForms ==
    {<<"all", <<"s">>, <<" ">>, {}>>, <<"selected", <<"s">>, <<"c">>, {}>>,
     <<"selected", <<"s">>, <<"c">>, {2}>>, <<"all", <<"s">>, <<"c">>, {}>>,
     <<"selected", <<"s">>, <<"c">>, {1}>>}

\* the ids in the URLs the admin opens, and the status arguments
RequestIds == {0, 1, 2}
StatusArgs == {"approved", "rejected", "pending"}

\* the admin writes the messages of a day before turning to the requests
NextDash ==
    \/ \E c \in Browser : employee_dashboard(c)
    \/ \E c \in Browser, f \in LeaveForms : employee_leave_request(c, "POST", f[1], f[2], f[3])
    \/ \E c \in Browser : employee_leave_request(c, "GET", "", NoDate, NoDate)
    \/ \E c \in Browser, f \in TodoForms : employee_todos_add(c, "POST", f[1], f[2])
    \/ \E c \in Browser : employee_todos_add(c, "GET", <<>>, NoDate)
    \/ \E c \in AdminBrowser, id \in RequestIds, status \in StatusArgs :
         admin_leave_request_update(c, id, status)
    \/ \E c \in AdminBrowser, f \in MessageForms :
         /\ seq.leave_requests = 0
         /\ admin_send_message(c, "POST", f[1], f[2], f[3], f[4])
    \/ \E c \in AdminBrowser :
         /\ seq.leave_requests = 0
         /\ admin_send_message(c, "GET", "all", <<>>, <<>>, {})

SpecDash == InitDash /\ [][NextDash]_vars

(***************************************************************************)
(* Properties of the employee dashboard                                    *)
(***************************************************************************)
\* the last response is a rendered employee dashboard
DashboardShown ==
    /\ resp.op = "employee_dashboard"
    /\ resp.kind = "render"
    /\ resp.to = "employee_dashboard.html"

LeavesOf(uid) == {id \in DOMAIN leave_requests : leave_requests[id].employee_id = uid}
ResolvedLeavesOf(uid) == {id \in LeavesOf(uid) : leave_requests[id].status \in {"approved", "rejected"}}
MessagesTo(uid) == {id \in DOMAIN messages : messages[id].receiver_id = uid}
UnreadMessagesTo(uid) == {id \in MessagesTo(uid) : ~messages[id].is_read}

\* items lists newest rows of the set all: as many as there are, up to the
\* cap, each once and as stored, and no row left out is newer than a listed one
ListsNewest(items, all, table) ==
    LET listed == {items[i].id : i \in DOMAIN items}
    IN  /\ Len(items) = (IF Cardinality(all) < RecentLimit THEN Cardinality(all) ELSE RecentLimit)
        /\ Cardinality(listed) = Len(items)
        /\ listed \subseteq all
        /\ \A x \in listed, y \in all \ listed : table[x].created_at >= table[y].created_at
        /\ \A i \in DOMAIN items : items[i] = [id |-> items[i].id] @@ table[items[i].id]

C6_AddedTodoIsCounted ==
    [][\A c \in Browser :
         (/\ HasCurrentUser(c)
          /\ Get(session[c], "user_role") = "employee"
          /\ employee_todos_add(c, "POST", <<"t">>, DateField(Today)))
            => pending_todos_count(session[c]["user_id"])'
                  = pending_todos_count(session[c]["user_id"]) + 1]_vars

\* the last response answers an approval that took effect
JustApproved ==
    /\ resp.op = "admin_leave_request_update"
    /\ resp.flash = LeaveApproved

ShowsApproved(items, id) ==
    \E i \in DOMAIN items : items[i].id = id /\ items[i].status = "approved"

\* C7 as stated, for the dashboard that directly follows the approval: it
\* contains an item for the approved request with status approved.
C7_ApprovedAlwaysShown ==
    [][(JustApproved /\ DashboardShown'
        /\ leave_requests[resp.ctx.request_id].employee_id = resp'.ctx.current_user)
            => ShowsApproved(resp'.ctx.recent_leaves, resp.ctx.request_id)]_vars

\* fewer than 5 other leave requests of the owner are as new as this one
AmongNewestLeaves(id) ==
    Cardinality({other \in LeavesOf(leave_requests[id].employee_id) \ {id} :
                    leave_requests[other].created_at >= leave_requests[id].created_at}) < RecentLimit

\* C7 amended: a dashboard of the owner contains an item with status
\* approved for every request of theirs that is approved (approved by
\* admin_leave_request_update and not rejected since) and is among their 5
\* newest leave requests.
C7_ApprovedShownWhileRecent ==
    DashboardShown =>
        \A id \in LeavesOf(resp.ctx.current_user) :
            (leave_requests[id].status = "approved" /\ AmongNewestLeaves(id))
                => ShowsApproved(resp.ctx.recent_leaves, id)

\* a dashboard of an employee with more than 5 leave requests that shows
\* an approved one
C7_Witness ==
    /\ DashboardShown
    /\ Cardinality(LeavesOf(resp.ctx.current_user)) > RecentLimit
    /\ \E id \in LeavesOf(resp.ctx.current_user) : ShowsApproved(resp.ctx.recent_leaves, id)

(***************************************************************************)
(* Session replacement at login                                            *)
(***************************************************************************)
\* the last response reports a login that took effect
LoginSucceeded == resp.flash \in LoginFlashes

\* the role a login route establishes
RoleOf(op) == IF op \in {"admin_login", "admin_quick_access"} THEN "admin" ELSE "employee"

\* the keys a login route writes
KeysOf(op) ==
    {"user_id", "user_role", "user_name", "user_email"}
        \cup (IF op \in {"admin_login", "employee_login"} THEN {"_permanent"} ELSE {})

\* C11: after a successful login the session holds exactly the keys that
\* login wrote, and its id, role, display name and email are those of one
\* row of the table of the role logged in to; nothing of the session the
\* client had before survives.
C11_LoginReplacesSession ==
    LoginSucceeded =>
        LET s == session[resp.client]
            table == IF RoleOf(resp.op) = "admin" THEN admins ELSE employees
        IN  /\ DOMAIN s = KeysOf(resp.op)
            /\ s["user_role"] = RoleOf(resp.op)
            /\ s["user_id"] \in DOMAIN table
            /\ s["user_name"] = table[s["user_id"]].name
            /\ s["user_email"] = table[s["user_id"]].email

\* a quick-access login of the admin on a client that held the permanent
\* session of an employee
C11_Witness ==
    /\ resp.op = "admin_quick_access"
    /\ LoginSucceeded
    /\ \E id \in DOMAIN employees : employees[id].last_login # Null
    /\ "_permanent" \notin DOMAIN session[resp.client]

(***************************************************************************)
(* Sessions that outlive their principal: the admin deactivates or deletes *)
(* an employee whose browser still holds a session                         *)
(***************************************************************************)
EmployeeDeleted == "Employee deleted successfully!"
ErrorDeletingEmployee == "Error deleting employee"

\* the rows that reference an employee through a NOT NULL foreign key; the
\* unit of work sets these keys to NULL when the employee is deleted
ReferencesTo(employee_id) ==
    [leave_requests |-> {id \in DOMAIN leave_requests : leave_requests[id].employee_id = employee_id},
     messages |-> {id \in DOMAIN messages : employee_id \in {messages[id].sender_id, messages[id].receiver_id}},
     todos |-> {id \in DOMAIN todos : todos[id].employee_id = employee_id},
     documents |-> {id \in DOMAIN documents : documents[id].employee_id = employee_id}]

admin_employee_delete_view(c, employee_id) ==
    LET refs == ReferencesTo(employee_id)
    IN  IF employee_id \notin DOMAIN employees
        THEN \* get_or_404 raises inside the try block
             /\ resp' = Redirect(c, "admin_employee_delete", TRUE, ErrorDeletingEmployee, "admin_employees")
             /\ UNCHANGED <<db, session, now>>
        ELSE IF refs.leave_requests # {} \/ refs.messages # {} \/ refs.todos # {} \/ refs.documents # {}
        THEN \* IntegrityError on commit, rolled back
             /\ resp' = Redirect(c, "admin_employee_delete", TRUE, ErrorDeletingEmployee, "admin_employees")
             /\ UNCHANGED <<db, session, now>>
        ELSE /\ employees' = Delete(employees, employee_id)
             /\ resp' = Redirect(c, "admin_employee_delete", TRUE, EmployeeDeleted, "admin_employees")
             /\ UNCHANGED <<admins, leave_requests, messages, todos, documents, seq, session, now>>

admin_employee_delete(c, employee_id) ==
    login_required(RequiredRole.admin_employee_delete, c, "admin_employee_delete",
                   admin_employee_delete_view(c, employee_id))

\* an exception that leaves the view function: the request is answered by
\* the handler of internal errors
Fault(c, op, exception) == Response(c, op, TRUE, NoFlash, "fault", exception, NoCtx)

employee_leave_view(c) ==
    IF ~HasCurrentUser(c)
    THEN \* current_user.id with current_user = None
         /\ resp' = Fault(c, "employee_leave", "AttributeError")
         /\ UNCHANGED <<db, session, now>>
    ELSE /\ \E rows \in OrderDesc(recent_leaves_query(session[c]["user_id"]), CreatedAt(leave_requests)) :
              resp' = Response(c, "employee_leave", TRUE, NoFlash, "render", "employee_leave.html",
                               [leave_requests |-> Items(leave_requests, rows),
                                current_user |-> session[c]["user_id"]])
         /\ UNCHANGED <<db, session, now>>

employee_leave(c) ==
    login_required(RequiredRole.employee_leave, c, "employee_leave", employee_leave_view(c))

\* the forms of the employee whose principal the admin changes
StaleProfileForms == {<<"Bob", "555", <<>>, <<>>>>, <<None, None, AlicePasswordX, AlicePasswordX>>}
StaleLoginForms == {<<AliceEmail, AlicePassword>>, <<AliceEmail, AlicePasswordX>>}

NextStale ==
    \/ \E c \in Browser : employee_dashboard(c)
    \/ \E c \in Browser : employee_leave(c)
    \/ \E c \in Browser, f \in LeaveForms : employee_leave_request(c, "POST", f[1], f[2], f[3])
    \/ \E c \in Browser, f \in StaleProfileForms : update_profile(c, f[1], f[2], f[3], f[4])
    \/ \E c \in Browser : logout(c)
    \/ \E c \in Browser, f \in StaleLoginForms : employee_login(c, "POST", f[1], f[2])
    \/ \E c \in AdminBrowser, id \in EmployeeIds : admin_employee_toggle_status(c, id)
    \/ \E c \in AdminBrowser, id \in EmployeeIds : admin_employee_delete(c, id)
    \/ \E c \in AdminBrowser : admin_dashboard(c)

SpecStale == InitDash /\ [][NextStale]_vars

(***************************************************************************)
(* Properties of sessions whose principal was deactivated or deleted       *)
(***************************************************************************)
\* client c holds the session of an employee
EmployeeSession(c) ==
    /\ "user_id" \in DOMAIN session[c]
    /\ Get(session[c], "user_role") = "employee"

\* this step answers a request of client c for a guarded operation
GuardedRequestBy(c) ==
    /\ resp'.client = c
    /\ resp'.op \in GuardedOps

\* the request was turned away and the session of c is cleared
HandledAsAnonymous(c) ==
    /\ ~resp'.invoked
    /\ "user_id" \notin DOMAIN session'[c]
    /\ "user_role" \notin DOMAIN session'[c]

\* C12: when the employee of a session has been deactivated, the next
\* request for a guarded operation under that session does not run the
\* operation and clears the session.
C12_DeactivatedSessionCleared ==
    [][\A c \in Clients :
          (/\ EmployeeSession(c)
           /\ session[c]["user_id"] \in DOMAIN employees
           /\ ~employees[session[c]["user_id"]].is_active
           /\ GuardedRequestBy(c))
             => HandledAsAnonymous(c)]_vars

\* C13: when the principal of a session has been deleted, the next request
\* for a guarded operation under that session clears the session and is
\* handled as a request without session.
C13_DeletedSessionCleared ==
    [][\A c \in Clients :
          (/\ EmployeeSession(c)
           /\ session[c]["user_id"] \notin DOMAIN employees
           /\ GuardedRequestBy(c))
             => HandledAsAnonymous(c)]_vars

(***************************************************************************)
(* Properties of forgot_password and reset_password                        *)
(***************************************************************************)
\* the last response answers a reset-link request with a non-empty email
ResetLinkRequested ==
    /\ resp.op = "forgot_password"
    /\ resp.ctx.method = "POST"
    /\ lower(strip(resp.ctx.email)) # <<>>

AccountsByEmail(email) == ByEmail(employees, email) \cup ByEmail(admins, email)

\* C14: forgot_password answers every non-empty email with the same message
\* and the same redirect, whether or not an admin or employee has that
\* email, and stores nothing.
C14_SameOutcomeForEveryEmail ==
    /\ [](ResetLinkRequested =>
            /\ resp.flash = ResetLinkSent
            /\ resp.kind = "redirect"
            /\ resp.to = "employee_login")
    /\ [][resp'.op = "forgot_password" => UNCHANGED <<db, session>>]_vars

\* a reset-link request for the email of an existing employee
C14_Witness ==
    /\ ResetLinkRequested
    /\ AccountsByEmail(lower(strip(resp.ctx.email))) # {}

\* ... and one for an email without account
C14_WitnessNoAccount ==
    /\ ResetLinkRequested
    /\ AccountsByEmail(lower(strip(resp.ctx.email))) = {}

\* some admin or employee can log in with password: the stored hash of
\* their row verifies it
SomeoneVerifies(password) ==
    \/ \E id \in DOMAIN admins : check_password_hash(admins[id].password, password)
    \/ \E id \in DOMAIN employees : check_password_hash(employees[id].password, password)

\* C15: when reset_password reports success for a new password, that
\* password has been stored for a principal: a stored hash verifies it.
C15_ResetStoresPassword ==
    [][\A c \in Browser, token \in Tokens, form \in ResetForms :
          (reset_password(c, "POST", token, form[1], form[2]) /\ resp'.flash = ResetSuccess)
             => SomeoneVerifies(strip(form[1]))']_vars

(***************************************************************************)
(* Password policy of reset_password and update_profile                    *)
(***************************************************************************)
\* password forms: <<new_password, confirm_password>>
PolicyForms ==
    {<<<<>>, AlicePassword>>,
     <<ShortPassword, ShortPassword>>,
     <<ShortPassword \o <<" ", " ", " ">>, ShortPassword>>,
     <<AlicePassword, AlicePasswordX>>,
     <<AlicePassword, AlicePassword \o <<" ">>>>,
     <<AlicePasswordX, AlicePasswordX>>}

NextPolicy ==
    \/ \E c \in Browser, token \in {"t1"}, form \in PolicyForms :
         reset_password(c, "POST", token, form[1], form[2])
    \/ \E c \in Browser, form \in PolicyForms : update_profile(c, None, None, form[1], form[2])
    \/ \E c \in Browser, key \in KeyInputs : employee_quick_access(c, key)
    \/ \E c \in Browser, key \in KeyInputs : admin_quick_access(c, key)
    \/ \E c \in Browser : logout(c)

SpecPolicy == Init /\ [][NextPolicy]_vars

Passwords(table) == [id \in DOMAIN table |-> table[id].password]

PolicyFailures == {PasswordTooShort, PasswordsDoNotMatch}

\* what a step of reset_password or update_profile that is given the
\* fields new and confirm may do, for a reading Read of the two fields
FollowsPolicy(new, confirm, Read(_)) ==
    LET accepted == \/ resp'.op = "reset_password" /\ resp'.flash = ResetSuccess
                    \/ resp'.op = "update_profile"
                         /\ <<Passwords(admins), Passwords(employees)>>'
                               # <<Passwords(admins), Passwords(employees)>>
    IN  /\ accepted => (Len(Read(new)) >= 6 /\ Read(new) = Read(confirm))
        /\ (Read(new) # <<>> /\ Read(confirm) # <<>>
               /\ (Len(Read(new)) < 6 \/ Read(new) # Read(confirm)))
              => /\ resp'.flash \in PolicyFailures
                 /\ UNCHANGED <<admins, employees>>

PolicyStep(c, form) ==
    \/ reset_password(c, "POST", "t1", form[1], form[2])
    \/ HasCurrentUser(c) /\ update_profile(c, None, None, form[1], form[2])

AsTyped(field) == field

ListKeys == {"recent_leaves", "recent_messages", "upcoming_todos"}

NewestFirst(items) ==
    \A i, j \in DOMAIN items : i < j => items[i].created_at >= items[j].created_at

Contains(feed, items) == \A i \in DOMAIN items : \E j \in DOMAIN feed : feed[j] = items[i]

\* C17 as stated: the dashboard is handed one list that holds the message
\* items and the leave items together, newest first and at most 10 long.
C17_OneMergedFeed ==
    DashboardShown =>
        \E key \in ListKeys :
            /\ Contains(resp.ctx[key], resp.ctx.recent_messages)
            /\ Contains(resp.ctx[key], resp.ctx.recent_leaves)
            /\ NewestFirst(resp.ctx[key])
            /\ Len(resp.ctx[key]) <= 10

\* C17 amended: the dashboard is handed the message items and the leave
\* items as two lists, each newest first and at most 5 long, so never more
\* than 10 items together.
C17_TwoOrderedLists ==
    DashboardShown =>
        /\ NewestFirst(resp.ctx.recent_messages)
        /\ NewestFirst(resp.ctx.recent_leaves)
        /\ Len(resp.ctx.recent_messages) <= 5
        /\ Len(resp.ctx.recent_leaves) <= 5
        /\ Len(resp.ctx.recent_messages) + Len(resp.ctx.recent_leaves) <= 10

\* a dashboard with 10 items: 5 of 6 messages and 5 of 6 leave requests
C17_Witness ==
    /\ DashboardShown
    /\ Len(resp.ctx.recent_messages) + Len(resp.ctx.recent_leaves) = 10
    /\ Cardinality(MessagesTo(resp.ctx.current_user)) > 5
    /\ Cardinality(LeavesOf(resp.ctx.current_user)) > 5

(***************************************************************************)
(* Dashboards when a query raises: the database is unreachable or the      *)
(* statement fails while the handler runs                                  *)
(***************************************************************************)
ErrorLoadingDashboard == "Error loading dashboard"
ErrorLoadingAdminDashboard == "Error loading admin dashboard"

\* the queries of employee_dashboard inside its try block, after the lookup
\* of the current user
EmployeeDashboardQueries ==
    {"pending_leaves", "unread_messages", "pending_todos", "approved_leaves", "recent_leaves",
     "recent_messages", "upcoming_todos", "recent_documents", "admin_messages", "announcements"}

AdminDashboardQueries ==
    {"total_employees", "pending_leave_requests", "unread_admin_messages", "active_employees",
     "pending_tasks_count", "total_documents", "pending_leaves", "recent_messages"}

\* get_current_user() catches the exception of its own query and returns None
CurrentUserQuery == "current_user"

employee_dashboard_raising_view(c, failing) ==
    /\ resp' = Fault(c, "employee_dashboard", "OperationalError")
    /\ UNCHANGED <<db, session, now>>

\* employee_dashboard when the query named failing raises
employee_dashboard_failing_view(c, failing) ==
    IF failing = CurrentUserQuery \/ ~HasCurrentUser(c)
    THEN /\ resp' = Redirect(c, "employee_dashboard", TRUE, UserNotFound, "logout")
         /\ UNCHANGED <<db, session, now>>
    ELSE \* except Exception: safe fallback values; get_current_user() is
         \* called again and may fail as well
         /\ \E current_user \in {session[c]["user_id"], Null} :
              resp' = Response(c, "employee_dashboard", TRUE, ErrorLoadingDashboard, "render",
                               "employee_dashboard.html",
                               [pending_leaves |-> 0, unread_messages |-> 0, pending_todos |-> 0,
                                approved_leaves |-> 0, recent_leaves |-> <<>>, recent_messages |-> <<>>,
                                upcoming_todos |-> <<>>, today |-> Today, current_user |-> current_user])
         /\ UNCHANGED <<db, session, now>>

employee_dashboard_failing(c, failing) ==
    login_required(RequiredRole.employee_dashboard, c, "employee_dashboard",
                   employee_dashboard_failing_view(c, failing))

\* admin_dashboard when the query named failing raises
admin_dashboard_failing_view(c, failing) ==
    IF failing = CurrentUserQuery
    THEN \* current_user is None and the try block runs as usual
         /\ resp' \in AdminDashboardRendered(c, Null)
         /\ UNCHANGED <<db, session, now>>
    ELSE /\ resp' = Response(c, "admin_dashboard", TRUE, ErrorLoadingAdminDashboard, "render",
                             "admin_dashboard.html",
                             [total_employees |-> 0, pending_leave_requests |-> 0, active_employees |-> 0,
                              pending_tasks_count |-> 0, pending_leaves |-> <<>>,
                              current_user |-> IF HasCurrentUser(c) THEN session[c]["user_id"] ELSE Null])
         /\ UNCHANGED <<db, session, now>>

admin_dashboard_failing(c, failing) ==
    login_required(RequiredRole.admin_dashboard, c, "admin_dashboard",
                   admin_dashboard_failing_view(c, failing))

NextFail ==
    \/ NextDash
    \/ \E c \in AdminBrowser : admin_dashboard(c)
    \/ \E c \in Browser, failing \in EmployeeDashboardQueries \cup {CurrentUserQuery} :
         employee_dashboard_failing(c, failing)
    \/ \E c \in AdminBrowser, failing \in AdminDashboardQueries \cup {CurrentUserQuery} :
         admin_dashboard_failing(c, failing)

SpecFail == InitDash /\ [][NextFail]_vars

\* the counts of a dashboard are all zero and its lists all empty
AllZero(ctx, counts, lists) ==
    /\ \A k \in counts : ctx[k] = 0
    /\ \A k \in lists : ctx[k] = <<>>

C19_DashboardsReadOnly ==
    [][resp'.op \in {"employee_dashboard", "admin_dashboard"} => UNCHANGED <<db, session>>]_vars

\* a dashboard listing a message that is still unread afterwards
C19_Witness ==
    /\ DashboardShown
    /\ \E i \in DOMAIN resp.ctx.recent_messages :
         /\ ~resp.ctx.recent_messages[i].is_read
         /\ ~messages[resp.ctx.recent_messages[i].id].is_read

\* C20: every request for a guarded operation is answered with a rendered
\* page or a redirect, never with an exception that left the view function.
C20_NoUnhandledFault ==
    resp.op \in GuardedOps => resp.kind \in {"render", "redirect"}

(***************************************************************************)
(* Unique e-mail addresses.  The lookup of a handler and its commit are    *)
(* two statements on the database: another request may commit between      *)
(* them, and then the unique index of the column decides the commit.       *)
(***************************************************************************)
ErrorAddingEmployee == "Error adding employee"

\* a column without unique=True accepts every row
UniqueIndexIgnored(table, email) == TRUE

\* unique=True on the email column: the commit of a row is accepted only
\* when no committed row carries the address
UniqueEmail(table, email) == ByEmail(table, email) = {}

\* admin_employees_add whose lookup of the address ran before the commit of
\* another request: existing_employee is None whatever the table holds now,
\* and an IntegrityError of the commit is taken by except Exception
admin_employees_add_racing_view(c, name, form_email, form_password) ==
    LET email == lower(strip(form_email))
        password == strip(form_password)
    IN  IF name = "" \/ email = <<>> \/ password = <<>>
        THEN /\ resp' = Render(c, "admin_employees_add", TRUE, FillAllFields, "admin_employees_add.html")
             /\ UNCHANGED <<db, session, now>>
        ELSE IF ~UniqueEmail(employees, email)
        THEN /\ resp' = Render(c, "admin_employees_add", TRUE, ErrorAddingEmployee, "admin_employees_add.html")
             /\ UNCHANGED <<db, session, now>>
        ELSE /\ seq.employees < MaxEmployees
             /\ \E salt \in RequestSalts :
                  employees' = Insert(employees, seq.employees + 1,
                                      [email |-> email,
                                       password |-> generate_password_hash(password, salt),
                                       name |-> name, phone |-> "",
                                       is_active |-> TRUE, last_login |-> Null])
             /\ seq' = [seq EXCEPT !.employees = @ + 1]
             /\ resp' = Redirect(c, "admin_employees_add", TRUE, EmployeeAdded, "admin_employees")
             /\ UNCHANGED <<admins, leave_requests, messages, todos, documents, session, now>>

admin_employees_add_racing(c, name, form_email, form_password) ==
    login_required(RequiredRole.admin_employees_add, c, "admin_employees_add",
                   admin_employees_add_racing_view(c, name, form_email, form_password))

\* employee_quick_access whose lookup of the demo address ran before the
\* commit of another request; the commit is outside any try block
employee_quick_access_racing(c) ==
    IF ~UniqueEmail(employees, DemoEmployeeEmail)
    THEN /\ resp' = Fault(c, "employee_quick_access", "IntegrityError")
         /\ UNCHANGED <<db, session, now>>
    ELSE /\ seq.employees < MaxEmployees
         /\ \E salt \in RequestSalts :
              employees' = Insert(employees, seq.employees + 1, DemoEmployee(salt))
         /\ seq' = [seq EXCEPT !.employees = @ + 1]
         /\ session' = [session EXCEPT ![c] = Assign(session_clear(session[c]),
                            PrincipalSession(seq.employees + 1, "employee", employees'[seq.employees + 1]))]
         /\ resp' = Redirect(c, "employee_quick_access", TRUE, DemoEmployeeLogin, "employee_dashboard")
         /\ UNCHANGED <<admins, leave_requests, messages, todos, documents, now>>

AddForms ==
    {<<"Alice", AliceEmailRaw, AlicePassword>>, <<"Alice", AliceEmail, AlicePasswordX>>,
     <<"Demo", DemoEmployeeEmail, AlicePassword>>, <<"", AliceEmail, AlicePassword>>}

NextUnique ==
    \/ \E c \in Browser, key \in KeyInputs : employee_quick_access(c, key)
    \/ \E c \in Browser : employee_quick_access_racing(c)
    \/ \E c \in Browser, key \in KeyInputs : admin_quick_access(c, key)
    \/ \E c \in Browser : logout(c)
    \/ \E c \in Browser, method \in {"GET", "POST"}, f \in AddForms :
         admin_employees_add(c, method, f[1], f[2], f[3])
    \/ \E c \in Browser, f \in AddForms : admin_employees_add_racing(c, f[1], f[2], f[3])

SpecUnique == Init /\ [][NextUnique]_vars

NoSharedEmail(table) ==
    \A i \in DOMAIN table, j \in DOMAIN table : table[i].email = table[j].email => i = j

\* a request to admin_employees_add that passes the guard and names the
\* address of a committed employee
AddOfExistingEmail ==
    \E c \in Browser, f \in AddForms :
        /\ \/ admin_employees_add(c, "POST", f[1], f[2], f[3])
           \/ admin_employees_add_racing(c, f[1], f[2], f[3])
        /\ ByEmail(employees, lower(strip(f[2]))) # {}

\* C21: no two employees and no two admins ever share an e-mail address,
\* whether the rows come from setup, from admin_employees_add (also when two
\* additions of one address overlap) or from quick access; and an addition
\* that names the address of an existing employee creates no record.
C21_EmailsUnique ==
    /\ [](NoSharedEmail(employees) /\ NoSharedEmail(admins))
    /\ [][AddOfExistingEmail => employees' = employees /\ admins' = admins]_vars

\* two employees exist and an overlapping addition of a taken address was
\* refused by the index
C21_Witness ==
    /\ Cardinality(DOMAIN employees) = 2
    /\ resp.op = "admin_employees_add"
    /\ resp.flash = ErrorAddingEmployee

(***************************************************************************)
(* How a session becomes authenticated                                     *)
(***************************************************************************)
Anonymous(s) == "user_id" \notin DOMAIN s

\* the step is a login request of browser c that supplied the e-mail address
\* of the principal the session now names and a password that verifies
\* against the hash stored for that principal
PasswordLogin(c) ==
    \E r \in LoginRequests :
        /\ r[1] = "POST"
        /\ \/ /\ employee_login(c, r[1], r[2], r[3])
              /\ session'[c]["user_role"] = "employee"
              /\ \E id \in DOMAIN employees :
                   /\ session'[c]["user_id"] = id
                   /\ lower(strip(r[2])) = employees[id].email
                   /\ check_password_hash(employees[id].password, r[3])
           \/ /\ admin_login(c, r[1], r[2], r[3])
              /\ session'[c]["user_role"] = "admin"
              /\ \E id \in DOMAIN admins :
                   /\ session'[c]["user_id"] = id
                   /\ lower(strip(r[2])) = admins[id].email
                   /\ check_password_hash(admins[id].password, r[3])

\* C22: a session goes from anonymous to authenticated as a principal only
\* in a request that supplied that principal's e-mail address and a password
\* verifying against the principal's stored hash.
C22_AuthenticatedOnlyByPassword ==
    [][\A c \in Browser :
         (Anonymous(session[c]) /\ ~Anonymous(session'[c])) => PasswordLogin(c)]_vars

(***************************************************************************)
(* Login with an address written in another letter case                    *)
(***************************************************************************)
DefaultAdminEmailRaw ==
    <<" ","A","d","m","i","n","@","m","a","X","e","l","o",".","c","o","m"," ">>
DemoEmployeeEmailRaw ==
    <<"d","e","m","o","@","e","m","p","l","o","y","e","e",".","c","o","m"," ">>

\* <<address as typed into the login form, address it is a written form of>>
Variants ==
    {<<AliceEmailRaw, AliceEmail>>,
     <<DefaultAdminEmailRaw, DefaultAdminEmail>>, <<DemoEmployeeEmailRaw, DemoEmployeeEmail>>}

LoginPasswords == {AlicePassword, AlicePasswordX, DefaultAdminPassword, DemoEmployeePassword}

NextLogin ==
    \/ \E c \in Browser, v \in Variants, p \in LoginPasswords : employee_login(c, "POST", v[1], p)
    \/ \E c \in Browser, v \in Variants, p \in LoginPasswords : admin_login(c, "POST", v[1], p)
    \/ \E c \in Browser : employee_quick_access(c, EmployeeQuickKey)
    \/ \E c \in Browser : logout(c)
    \/ \E c \in Browser, f \in AddForms : admin_employees_add(c, "POST", f[1], f[2], f[3])
    \/ \E c \in Browser, id \in 1..MaxEmployees : admin_employee_toggle_status(c, id)

SpecLogin == Init /\ [][NextLogin]_vars

LoginOf(c, role, written, password) ==
    IF role = "admin" THEN admin_login(c, "POST", written, password)
    ELSE employee_login(c, "POST", written, password)

\* the login form is processed: the session is not already one of the role
NotYetIn(c, role) == ~("user_id" \in DOMAIN session[c] /\ Get(session[c], "user_role") = role)

\* the step authenticates browser c as row id of the role
LoggedInAs(c, role, id) ==
    /\ resp'.flash \in LoginFlashes
    /\ session'[c]["user_id"] = id
    /\ session'[c]["user_role"] = role

\* C23 (as claimed): for every stored principal, a login that supplies a
\* written form of its address (other letter case, surrounding whitespace)
\* and a password verifying against its hash succeeds.
C23_FoldedEmailLoginSucceeds ==
    [][\A c \in Browser, v \in Variants, p \in LoginPasswords, role \in {"admin", "employee"} :
         LET table == IF role = "admin" THEN admins ELSE employees
         IN  \A id \in ByEmail(table, v[2]) :
                 (/\ LoginOf(c, role, v[1], p)
                  /\ NotYetIn(c, role)
                  /\ check_password_hash(table[id].password, p))
                     => LoggedInAs(c, role, id)]_vars

\* C23 (amended): the same, for admins and for employees whose is_active
\* flag is set.
C23_ActiveFoldedEmailLoginSucceeds ==
    [][\A c \in Browser, v \in Variants, p \in LoginPasswords, role \in {"admin", "employee"} :
         LET table == IF role = "admin" THEN admins ELSE employees
         IN  \A id \in ByEmail(table, v[2]) :
                 (/\ LoginOf(c, role, v[1], p)
                  /\ NotYetIn(c, role)
                  /\ check_password_hash(table[id].password, p)
                  /\ (role = "employee" => table[id].is_active))
                     => LoggedInAs(c, role, id)]_vars

\* an employee added by the admin is logged in; every login form of
\* NextLogin writes its address with capitals and surrounding blanks
C23_Witness ==
    /\ resp.op = "employee_login"
    /\ resp.flash = LoginSuccessful
    /\ session[resp.client]["user_email"] = AliceEmail
    /\ employees[session[resp.client]["user_id"]].last_login # Null

(***************************************************************************)
(* Refused logins                                                          *)
(***************************************************************************)
LoginRefusals == {EnterBoth, InvalidEmailOrPassword, InvalidAdminCredentials}

\* C24: a login request that is refused (a field is empty, the address is
\* unknown, the password is wrong, the employee is inactive) changes no row
\* of any table, last_login included, and no session; a refused employee
\* login under an admin session leaves that session as it was.
C24_RefusedLoginChangesNothing ==
    [][(resp'.op \in {"employee_login", "admin_login"} /\ resp'.flash \in LoginRefusals)
          => (db' = db /\ session' = session)]_vars

\* an employee login was refused while the browser holds an admin session
C24_Witness ==
    /\ resp.op = "employee_login"
    /\ resp.flash = InvalidEmailOrPassword
    /\ "user_id" \in DOMAIN session[resp.client]
    /\ session[resp.client]["user_role"] = "admin"

(***************************************************************************)
(* Documents and todos of an employee                                      *)
(***************************************************************************)
NoFileSelected == "No file selected"
DocumentUploaded == "Document uploaded successfully!"
InvalidFileType == "Invalid file type. Please check allowed formats."
ErrorUploadingDocument == "Error uploading document"
DocumentNotFound == "Document not found"
DocumentDeleted == "Document deleted successfully!"
TaskNotFound == "Task not found"
TaskUpdated == "Task updated successfully!"
ErrorUpdatingTask == "Error updating task"
TaskDeleted == "Task deleted successfully!"
\* f'Cleared {len(completed_todos)} completed tasks!': the number is the
\* field cleared of the response
ClearedCompleted == "Cleared completed tasks!"
ErrorAssigningTask == "Error assigning task"

\* an uploaded file name is <<stem, extension>>; no part 'file' in the
\* request is NoFile, an empty file name is EmptyFilename
NoFile == <<>>
EmptyFilename == <<"", "">>
allowed_extensions ==
    {"txt", "pdf", "png", "jpg", "jpeg", "gif", "doc", "docx", "xls", "xlsx", "pptx", "ppt", "csv"}

allowed_file(filename) == filename # EmptyFilename /\ filename[2] \in allowed_extensions

employee_documents_upload_view(c, method, file) ==
    LET again(flash) ==
            /\ resp' = Redirect(c, "employee_documents_upload", TRUE, flash, "employee_documents_upload")
            /\ UNCHANGED <<db, session, now>>
        page(flash) ==
            /\ resp' = Render(c, "employee_documents_upload", TRUE, flash, "employee_documents_upload.html")
            /\ UNCHANGED <<db, session, now>>
    IN  IF method # "POST" THEN page(NoFlash)
        ELSE IF file = NoFile \/ file = EmptyFilename THEN again(NoFileSelected)
        ELSE IF ~allowed_file(file) THEN page(InvalidFileType)
        ELSE IF ~HasCurrentUser(c) THEN page(ErrorUploadingDocument)
        ELSE /\ seq.documents < MaxDocuments
             /\ documents' = Insert(documents, seq.documents + 1,
                                    [employee_id |-> session[c]["user_id"],
                                     filename |-> file,
                                     created_at |-> utcnow])
             /\ seq' = [seq EXCEPT !.documents = @ + 1]
             /\ now' = utcnow
             /\ resp' = Redirect(c, "employee_documents_upload", TRUE, DocumentUploaded, "employee_documents")
             /\ UNCHANGED <<admins, employees, leave_requests, messages, todos, session>>

employee_documents_upload(c, method, file) ==
    login_required(RequiredRole.employee_documents_upload, c, "employee_documents_upload",
                   employee_documents_upload_view(c, method, file))

\* Document.query.filter_by(id=doc_id) without the owner
DocumentById(doc_id, employee_id) == {id \in DOMAIN documents : id = doc_id}

\* Document.query.filter_by(id=doc_id, employee_id=current_user.id)
DocumentByIdAndOwner(doc_id, employee_id) ==
    {id \in DOMAIN documents : id = doc_id /\ documents[id].employee_id = employee_id}

\* Todo.query.filter_by(id=todo_id, employee_id=current_user.id)
TodoByIdAndOwner(todo_id, employee_id) ==
    {id \in DOMAIN todos : id = todo_id /\ todos[id].employee_id = employee_id}

\* the answer of a request that names a record
Named(c, op, flash, to, id) == Response(c, op, TRUE, flash, "redirect", to, [id |-> id])

employee_document_delete_view(c, doc_id) ==
    IF ~HasCurrentUser(c)
    THEN \* current_user.id raises inside the try block
         /\ resp' = Named(c, "employee_document_delete", "Error deleting document", "employee_documents", doc_id)
         /\ UNCHANGED <<db, session, now>>
    ELSE LET found == DocumentByIdAndOwner(doc_id, session[c]["user_id"])
         IN  IF found = {}
             THEN /\ resp' = Named(c, "employee_document_delete", DocumentNotFound, "employee_documents", doc_id)
                  /\ UNCHANGED <<db, session, now>>
             ELSE /\ documents' = Delete(documents, First(found))
                  /\ resp' = Named(c, "employee_document_delete", DocumentDeleted, "employee_documents", doc_id)
                  /\ UNCHANGED <<admins, employees, leave_requests, messages, todos, seq, session, now>>

employee_document_delete(c, doc_id) ==
    login_required(RequiredRole.employee_document_delete, c, "employee_document_delete",
                   employee_document_delete_view(c, doc_id))

employee_todo_edit_view(c, method, todo_id, form_content, due_field) ==
    IF ~HasCurrentUser(c)
    THEN \* current_user.id outside any try block
         /\ resp' = Fault(c, "employee_todo_edit", "AttributeError")
         /\ UNCHANGED <<db, session, now>>
    ELSE LET found == TodoByIdAndOwner(todo_id, session[c]["user_id"])
             page(flash) ==
                 /\ resp' = Response(c, "employee_todo_edit", TRUE, flash, "render",
                                     "employee_todo_edit.html", [id |-> todo_id])
                 /\ UNCHANGED <<db, session, now>>
         IN  IF found = {}
             THEN /\ resp' = Named(c, "employee_todo_edit", TaskNotFound, "employee_todos", todo_id)
                  /\ UNCHANGED <<db, session, now>>
             ELSE IF method # "POST" THEN page(NoFlash)
             ELSE IF due_field.given /\ ~due_field.valid THEN page(ErrorUpdatingTask)
             ELSE /\ todos' = [todos EXCEPT ![First(found)].content = strip(form_content),
                                            ![First(found)].due_date =
                                                IF due_field.given THEN due_field.date ELSE Null]
                  /\ resp' = Named(c, "employee_todo_edit", TaskUpdated, "employee_todos", todo_id)
                  /\ UNCHANGED <<admins, employees, leave_requests, messages, documents, seq, session, now>>

employee_todo_edit(c, method, todo_id, form_content, due_field) ==
    login_required(RequiredRole.employee_todo_edit, c, "employee_todo_edit",
                   employee_todo_edit_view(c, method, todo_id, form_content, due_field))

employee_todo_update_view(c, todo_id) ==
    IF ~HasCurrentUser(c)
    THEN /\ resp' = Named(c, "employee_todo_update", ErrorUpdatingTask, "employee_todos", todo_id)
         /\ UNCHANGED <<db, session, now>>
    ELSE LET found == TodoByIdAndOwner(todo_id, session[c]["user_id"])
         IN  IF found = {}
             THEN /\ resp' = Named(c, "employee_todo_update", TaskNotFound, "employee_todos", todo_id)
                  /\ UNCHANGED <<db, session, now>>
             ELSE /\ todos' = [todos EXCEPT ![First(found)].is_completed = ~@]
                  /\ resp' = Named(c, "employee_todo_update", TaskUpdated, "employee_todos", todo_id)
                  /\ UNCHANGED <<admins, employees, leave_requests, messages, documents, seq, session, now>>

employee_todo_update(c, todo_id) ==
    login_required(RequiredRole.employee_todo_update, c, "employee_todo_update",
                   employee_todo_update_view(c, todo_id))

employee_todo_delete_view(c, todo_id) ==
    IF ~HasCurrentUser(c)
    THEN /\ resp' = Named(c, "employee_todo_delete", "Error deleting task", "employee_todos", todo_id)
         /\ UNCHANGED <<db, session, now>>
    ELSE LET found == TodoByIdAndOwner(todo_id, session[c]["user_id"])
         IN  IF found = {}
             THEN /\ resp' = Named(c, "employee_todo_delete", TaskNotFound, "employee_todos", todo_id)
                  /\ UNCHANGED <<db, session, now>>
             ELSE /\ todos' = Delete(todos, First(found))
                  /\ resp' = Named(c, "employee_todo_delete", TaskDeleted, "employee_todos", todo_id)
                  /\ UNCHANGED <<admins, employees, leave_requests, messages, documents, seq, session, now>>

employee_todo_delete(c, todo_id) ==
    login_required(RequiredRole.employee_todo_delete, c, "employee_todo_delete",
                   employee_todo_delete_view(c, todo_id))

employee_todos_clear_completed_view(c) ==
    IF ~HasCurrentUser(c)
    THEN /\ resp' = Redirect(c, "employee_todos_clear_completed", TRUE,
                             "Error clearing completed tasks", "employee_todos")
         /\ UNCHANGED <<db, session, now>>
    ELSE LET completed_todos ==
                 {id \in DOMAIN todos : /\ todos[id].employee_id = session[c]["user_id"]
                                        /\ todos[id].is_completed}
         IN  /\ todos' = [id \in DOMAIN todos \ completed_todos |-> todos[id]]
             /\ resp' = Response(c, "employee_todos_clear_completed", TRUE, ClearedCompleted, "redirect",
                                 "employee_todos", [cleared |-> Cardinality(completed_todos)])
             /\ UNCHANGED <<admins, employees, leave_requests, messages, documents, seq, session, now>>

employee_todos_clear_completed(c) ==
    login_required(RequiredRole.employee_todos_clear_completed, c, "employee_todos_clear_completed",
                   employee_todos_clear_completed_view(c))

\* the keywords admin_todo_add passes to Todo
AdminTodoKeywords == {"employee_id", "content", "priority", "due_date", "assigned_by_admin"}

\* the other place that constructs a Todo: the TypeError of the constructor
\* is taken by except Exception before anything is added to the session
admin_todo_add_view(c, method, employee_id, form_content, due_field) ==
    LET content == strip(form_content)
        page(flash) ==
            /\ resp' = Render(c, "admin_todo_add", TRUE, flash, "task_form.html")
            /\ UNCHANGED <<db, session, now>>
    IN  IF method # "POST" THEN page(NoFlash)
        ELSE IF employee_id = Null \/ content = <<>> THEN page(FillAllFields)
        ELSE IF due_field.given /\ ~due_field.valid THEN page(InvalidDateFormat)
        ELSE IF due_field.given /\ due_field.date < Today THEN page(DueInPast)
        ELSE IF ~HasCurrentUser(c) \/ ~TodoAccepts(AdminTodoKeywords) THEN page(ErrorAssigningTask)
        ELSE /\ seq.todos < MaxTodos
             /\ employee_id \in DOMAIN employees
             /\ todos' = Insert(todos, seq.todos + 1,
                                [employee_id |-> employee_id,
                                 content |-> <<"[From Admin] ">> \o content,
                                 due_date |-> IF due_field.given THEN due_field.date ELSE Null,
                                 is_completed |-> FALSE,
                                 created_at |-> utcnow])
             /\ seq' = [seq EXCEPT !.todos = @ + 1]
             /\ now' = utcnow
             /\ resp' = Redirect(c, "admin_todo_add", TRUE, "Task assigned successfully!", "admin_dashboard")
             /\ UNCHANGED <<admins, employees, leave_requests, messages, documents, session>>

admin_todo_add(c, method, employee_id, form_content, due_field) ==
    login_required(RequiredRole.admin_todo_add, c, "admin_todo_add",
                   admin_todo_add_view(c, method, employee_id, form_content, due_field))

(***************************************************************************)
(* Two employees at one browser, one after the other: the demo employee    *)
(* and an employee the admin adds from a second browser                    *)
(***************************************************************************)
Uploads == {NoFile, EmptyFilename, <<"report", "pdf">>, <<"setup", "exe">>}
RecordIds == {1, 2}
EditForms == {<<<<"t">>, NoDate>>, <<<<"t">>, BadDate>>}

NextOwn ==
    \/ \E c \in Browser : employee_quick_access(c, EmployeeQuickKey)
    \/ \E c \in Browser : employee_login(c, "POST", AliceEmailRaw, AlicePassword)
    \/ \E c \in Browser : logout(c)
    \/ \E c \in AdminBrowser : admin_quick_access(c, AdminQuickKey)
    \/ \E c \in AdminBrowser : admin_employees_add(c, "POST", "Alice", AliceEmailRaw, AlicePassword)
    \/ \E c \in AdminBrowser, id \in RecordIds \cup {Null}, f \in EditForms :
         admin_todo_add(c, "POST", id, f[1], f[2])
    \/ \E c \in Browser, f \in TodoForms : employee_todos_add(c, "POST", f[1], f[2])
    \/ \E c \in Browser, method \in {"GET", "POST"}, file \in Uploads :
         employee_documents_upload(c, method, file)
    \/ \E c \in Browser, id \in RecordIds : employee_document_delete(c, id)
    \/ \E c \in Browser, method \in {"GET", "POST"}, id \in RecordIds, f \in EditForms :
         employee_todo_edit(c, method, id, f[1], f[2])
    \/ \E c \in Browser, id \in RecordIds : employee_todo_update(c, id)
    \/ \E c \in Browser, id \in RecordIds : employee_todo_delete(c, id)
    \/ \E c \in Browser : employee_todos_clear_completed(c)

SpecOwn == Init /\ [][NextOwn]_vars

OwnerOps ==
    {"employee_todo_edit", "employee_todo_update", "employee_todo_delete",
     "employee_todos_clear_completed", "employee_document_delete"}

\* the rows of a table that belong to somebody else than the employee of
\* the session
OthersRows(table, s) ==
    {id \in DOMAIN table : "user_id" \in DOMAIN s => table[id].employee_id # s["user_id"]}

Kept(table, after, ids) == \A id \in ids : id \in DOMAIN after /\ after[id] = table[id]

\* C25: a request to employee_todo_edit, employee_todo_update,
\* employee_todo_delete, employee_todos_clear_completed or
\* employee_document_delete leaves every todo and every document whose
\* employee_id is not the user_id of the requesting session as it was.
C25_OthersRecordsUntouched ==
    [][resp'.op \in OwnerOps =>
          /\ Kept(todos, todos', OthersRows(todos, session[resp'.client]))
          /\ Kept(documents, documents', OthersRows(documents, session[resp'.client]))]_vars

\* an employee asked to delete a stored document of another employee
C25_Witness ==
    /\ resp.op = "employee_document_delete"
    /\ resp.invoked
    /\ resp.flash = DocumentNotFound
    /\ resp.ctx.id \in DOMAIN documents
    /\ session[resp.client]["user_role"] = "employee"
    /\ documents[resp.ctx.id].employee_id # session[resp.client]["user_id"]

(***************************************************************************)
(* The sender of a message                                                 *)
(***************************************************************************)
\* the session of the request that was answered last holds an employee
RequestOfEmployee(s, id) ==
    /\ "user_id" \in DOMAIN s
    /\ Get(s, "user_role") = "employee"
    /\ s["user_id"] = id

\* C26: every message is stored with the id of the employee whose session
\* made the request that created it as sender_id; no request stores a
\* message whose sender_id is the id of an admin or of an employee who did
\* not send it.
C26_SenderIsSessionEmployee ==
    [][\A id \in DOMAIN messages' \ DOMAIN messages :
          RequestOfEmployee(session[resp'.client], messages'[id].sender_id)]_vars

(***************************************************************************)
(* The status of a leave request                                           *)
(***************************************************************************)
LeaveStatuses == {"pending", "approved", "rejected"}

\* C27: the status of every leave request is pending, approved or rejected;
\* a request is created as pending; a request that is no longer pending
\* never becomes pending again; and admin_leave_request_update with a
\* status other than approved or rejected changes no leave request.
C27_LeaveStatusLifecycle ==
    /\ [](\A id \in DOMAIN leave_requests : leave_requests[id].status \in LeaveStatuses)
    /\ [][/\ \A id \in DOMAIN leave_requests' \ DOMAIN leave_requests :
                leave_requests'[id].status = "pending"
          /\ \A id \in DOMAIN leave_requests \cap DOMAIN leave_requests' :
                leave_requests[id].status # "pending" => leave_requests'[id].status # "pending"
          /\ \A c \in Clients, id \in RequestIds, status \in StatusArgs \ {"approved", "rejected"} :
                admin_leave_request_update(c, id, status) => leave_requests' = leave_requests]_vars

\* the admin asked to set a decided request back to pending
C27_Witness ==
    /\ resp.op = "admin_leave_request_update"
    /\ resp.flash = InvalidStatus
    /\ resp.ctx.status = "pending"
    /\ resp.ctx.request_id \in DOMAIN leave_requests
    /\ leave_requests[resp.ctx.request_id].status \in {"approved", "rejected"}

(***************************************************************************)
(* A rejected profile update                                               *)
(***************************************************************************)
\* C28: when update_profile rejects the request because the new password is
\* too short or differs from its confirmation, the row of the principal
\* (name, phone, password hash) and the user_name of the session are as
\* before, although the submitted name was assigned to the loaded row first.
C28_RejectedUpdateChangesNothing ==
    [][(resp'.op = "update_profile" /\ resp'.flash \in PolicyFailures)
          => (admins' = admins /\ employees' = employees /\ session' = session)]_vars

\* a rejected update of a principal not named Bob; every form of
\* ProfileForms that is rejected submits the name Bob
C28_Witness ==
    /\ resp.op = "update_profile"
    /\ resp.flash = PasswordTooShort
    /\ HasCurrentUser(resp.client)
    /\ CurrentTable(resp.client)[session[resp.client]["user_id"]].name # "Bob"
    /\ session[resp.client]["user_name"] # "Bob"

(***************************************************************************)
(* What a session says about its principal                                 *)
(***************************************************************************)
Roles == {"admin", "employee"}

\* the session has the identity keys and a role
WellFormed(s) ==
    "user_id" \in DOMAIN s =>
        /\ {"user_role", "user_name", "user_email"} \subseteq DOMAIN s
        /\ s["user_role"] \in Roles

\* id, name and address of the session are those of one row of the table of
\* its role
TakenFromPrincipal(s, admin_rows, employee_rows) ==
    LET table == IF s["user_role"] = "admin" THEN admin_rows ELSE employee_rows
    IN  /\ s["user_id"] \in DOMAIN table
        /\ s["user_name"] = table[s["user_id"]].name
        /\ s["user_email"] = table[s["user_id"]].email

\* C29: a session with user_id has user_role admin or employee, and
\* whenever a request writes a session that then holds user_id (login, quick
\* access, update_profile), its user_id, user_name and user_email are those
\* of one principal of that role stored at the end of the request; logout
\* leaves no user_id behind.
C29_SessionNamesOnePrincipal ==
    /\ [](\A c \in Clients : WellFormed(session[c]))
    /\ [][\A c \in Clients :
             /\ (session'[c] # session[c] /\ "user_id" \in DOMAIN session'[c])
                    => TakenFromPrincipal(session'[c], admins', employees')
             /\ resp'.op = "logout" /\ resp'.client = c => "user_id" \notin DOMAIN session'[c]]_vars

\* update_profile has renamed the principal of an employee session
C29_Witness ==
    /\ resp.op = "update_profile"
    /\ resp.flash = ProfileUpdated
    /\ session[resp.client]["user_role"] = "employee"
    /\ session[resp.client]["user_name"] = "Bob"
    /\ employees[session[resp.client]["user_id"]].name = "Bob"
    /\ session[resp.client]["user_email"] = employees[session[resp.client]["user_id"]].email

(***************************************************************************)
(* Stored leave requests                                                   *)
(***************************************************************************)
\* the form omits a required field or breaks a date rule on the day of the
\* request
InvalidLeaveForm(f) ==
    \/ f[1] = ""
    \/ ~f[2].given \/ ~f[3].given
    \/ ~f[2].valid \/ ~f[3].valid
    \/ f[2].date > f[3].date
    \/ f[2].date < now \div Day

\* C30: a leave request stored by employee_leave_request carries the id of
\* the employee of the requesting session, its start_date is not after its
\* end_date and not before the day of the request; a submission that omits
\* a required field or breaks a date rule stores no leave request.
C30_StoredLeaveIsValid ==
    /\ [](\A id \in DOMAIN leave_requests :
             leave_requests[id].start_date <= leave_requests[id].end_date)
    /\ [][/\ \A id \in DOMAIN leave_requests' \ DOMAIN leave_requests :
                /\ resp'.op = "employee_leave_request"
                /\ RequestOfEmployee(session[resp'.client], leave_requests'[id].employee_id)
                /\ leave_requests'[id].start_date <= leave_requests'[id].end_date
                /\ leave_requests'[id].start_date >= now \div Day
          /\ \A c \in Clients, f \in LeaveForms :
                (employee_leave_request(c, "POST", f[1], f[2], f[3]) /\ InvalidLeaveForm(f))
                    => leave_requests' = leave_requests]_vars

\* a request starting in the past was refused after one had been stored
C30_Witness ==
    /\ resp.op = "employee_leave_request"
    /\ resp.flash = StartInPast
    /\ leave_requests # EmptyTable
    /\ \A id \in DOMAIN leave_requests :
          leave_requests[id].employee_id = session[resp.client]["user_id"]

====
